---- MODULE Spec2Model ----
(***************************************************************************)
(* Model of RedditToxicReportBot (src/bot.py): the pre-filter              *)
(* (SmartPreFilter.should_analyze), the LLM arbiter (LLMAnalyzer.analyze)  *)
(* and the main loop (process_thing) with the files it writes.             *)
(*                                                                         *)
(* Scores and thresholds are probabilities in the source; here they are    *)
(* integer percentages (0.15 is 15).  Times are whole seconds.             *)
(***************************************************************************)
EXTENDS Integers, Sequences, FiniteSets, TLC

(***************************************************************************)
(* Bounds of the model                                                     *)
(***************************************************************************)
MaxItems == 2        \* process_thing invocations explored per run
MaxRequests == 5     \* backend requests explored per run of the arbiter

(***************************************************************************)
(* Small helpers                                                           *)
(***************************************************************************)
EmptyMap == [l \in {} |-> 0]

Range(f) == {f[x] : x \in DOMAIN f}

\* max(values, default=d)
MaxOf(f, d) == IF DOMAIN f = {} THEN d
               ELSE CHOOSE v \in Range(f) : \A w \in Range(f) : v >= w

Min2(a, b) == IF a <= b THEN a ELSE b
Max2(a, b) == IF a >= b THEN a ELSE b

(***************************************************************************)
(* Text.  The phrase lists come from moderation_patterns.json, so a text   *)
(* is modelled by what each matcher of sections 4 and 5 returns on it.     *)
(* EarlyRules are the unconditional rules in evaluation order.             *)
(***************************************************************************)
EarlyRules == <<"regex_pattern", "slur", "self-harm", "threat",
                "sexual_violence", "brigading", "violence_illegal">>

EarlyRuleSet == Range(EarlyRules)

\* contains_slur, contains_self_harm, ... and the MUST_ESCALATE_RE loop
contains_early(text, rule) == rule \in text.early
contains_shill_accusation(text) == text.shill
contains_dismissive_hostile(text) == text.dismissive   \* "", "hard" or "soft"
contains_direct_insult(text) == text.insult
contains_contextual_term(text) == text.contextual
is_strongly_directed(text) == text.strong
is_weakly_directed(text) == text.weak

\* the benign phrases matched without looking at directedness
is_benign_exclamation_any(text) ==
    text.benign_phrase

\* is_benign_exclamation: BENIGN_PHRASES_RE / BENIGN_PHRASES_SET hit, and not directed
is_benign_exclamation(text) ==
    IF is_strongly_directed(text) THEN FALSE ELSE text.benign_phrase

\* should_analyze, layer 1: the first rule that fires, "" when none does
FirstEarly(text) ==
    IF \E i \in 1..Len(EarlyRules) : contains_early(text, EarlyRules[i])
    THEN EarlyRules[CHOOSE i \in 1..Len(EarlyRules) :
                      /\ contains_early(text, EarlyRules[i])
                      /\ \A j \in 1..(i-1) : ~contains_early(text, EarlyRules[j])]
    ELSE ""

EarlyTag(rule) ==
    CASE rule = "regex_pattern"    -> "must_escalate:regex_pattern"
      [] rule = "slur"             -> "must_escalate:slur"
      [] rule = "self-harm"        -> "must_escalate:self-harm"
      [] rule = "threat"           -> "must_escalate:threat"
      [] rule = "sexual_violence"  -> "must_escalate:sexual_violence"
      [] rule = "brigading"        -> "must_escalate:brigading"
      [] rule = "violence_illegal" -> "must_escalate:violence_illegal"
      [] OTHER                     -> ""

ShillReason(text) ==
    IF is_strongly_directed(text) /\ contains_shill_accusation(text)
    THEN "must_escalate:shill_accusation" ELSE ""

DismissiveReason(text, is_top_level) ==
    IF contains_dismissive_hostile(text) = "hard"
    THEN IF is_strongly_directed(text) \/ ~is_top_level
         THEN IF is_strongly_directed(text)
              THEN "must_escalate:dismissive_hard+directed"
              ELSE "must_escalate:dismissive_hard+reply"
         ELSE ""
    ELSE IF contains_dismissive_hostile(text) = "soft"
         THEN IF is_strongly_directed(text)
              THEN "must_escalate:dismissive_soft+directed" ELSE ""
         ELSE ""

\* the direct-insult rule without its directedness / reply gate
InsultReason_ungated(text, is_top_level) ==
    IF contains_direct_insult(text)
    THEN IF is_strongly_directed(text)
         THEN "must_escalate:insult+directed"
         ELSE "must_escalate:insult+reply"
    ELSE ""

InsultReason(text, is_top_level) ==
    IF contains_direct_insult(text)
    THEN IF is_strongly_directed(text) \/ ~is_top_level
         THEN IF is_strongly_directed(text)
              THEN "must_escalate:insult+directed"
              ELSE "must_escalate:insult+reply"
         ELSE ""
    ELSE ""

\* must_escalate_reason just before the direct-insult check (line 1545)
ReasonBeforeInsult(text, is_top_level) ==
    LET r1 == EarlyTag(FirstEarly(text))
        r2 == IF r1 # "" THEN r1 ELSE ShillReason(text)
    IN  IF r2 # "" THEN r2 ELSE DismissiveReason(text, is_top_level)

must_escalate_reason(text, is_top_level) ==
    LET r3 == ReasonBeforeInsult(text, is_top_level)
    IN  IF r3 # "" THEN r3 ELSE InsultReason(text, is_top_level)

(***************************************************************************)
(* External moderation API clients                                         *)
(***************************************************************************)
OPENAI_DEFAULT_THRESHOLDS ==
    [c \in {"hate", "hate/threatening", "harassment", "harassment/threatening",
            "self-harm", "self-harm/intent", "self-harm/instructions",
            "sexual", "sexual/minors", "violence", "violence/graphic"} |->
        CASE c \in {"self-harm", "self-harm/intent", "self-harm/instructions"} -> 30
          [] c = "sexual" -> 80
          [] c = "sexual/minors" -> 10
          [] c \in {"violence", "violence/graphic"} -> 70
          [] OTHER -> 50]

PERSPECTIVE_DEFAULT_THRESHOLDS ==
    [a \in {"TOXICITY", "SEVERE_TOXICITY", "IDENTITY_ATTACK", "INSULT",
            "PROFANITY", "THREAT"} |->
        CASE a \in {"TOXICITY", "INSULT"} -> 70
          [] a = "PROFANITY" -> 80
          [] OTHER -> 50]

RateWindow == 60

\* the limit read as "more than requests_per_minute are too many"
ClientCheckRateLimit_one_more(client, t) ==
    LET kept == SelectSeq(client.request_times, LAMBDA x : t - x < RateWindow)
    IN  IF Len(kept) > client.requests_per_minute
        THEN [ok |-> FALSE, request_times |-> kept]
        ELSE [ok |-> TRUE, request_times |-> Append(kept, t)]

\* _check_rate_limit of either client: [ok, request_times]
ClientCheckRateLimit(client, t) ==
    LET kept == SelectSeq(client.request_times, LAMBDA x : t - x < RateWindow)
    IN  IF Len(kept) >= client.requests_per_minute
        THEN [ok |-> FALSE, request_times |-> kept]
        ELSE [ok |-> TRUE, request_times |-> Append(kept, t)]

\* DEFAULT_THRESHOLDS.get(category, self.base_threshold)
ClientThreshold(defaults, client, c) ==
    IF c \in DOMAIN defaults THEN defaults[c] ELSE client.base_threshold

\* check_toxicity whose failed request counts as a flag
check_toxicity_error_flags(client, defaults, t, backend) ==
    IF ~client.available
    THEN [is_flagged |-> FALSE, max_score |-> 0, scores |-> EmptyMap,
          client |-> client, contacted |-> FALSE]
    ELSE LET rl == ClientCheckRateLimit(client, t)
             c1 == [client EXCEPT !.request_times = rl.request_times]
         IN  IF ~rl.ok
             THEN [is_flagged |-> FALSE, max_score |-> 0, scores |-> EmptyMap,
                   client |-> c1, contacted |-> FALSE]
             ELSE [is_flagged |-> backend.raises \/ \E c \in DOMAIN backend.scores :
                          backend.scores[c] >= ClientThreshold(defaults, client, c),
                   max_score |-> MaxOf(backend.scores, 0),
                   scores |-> backend.scores,
                   client |-> c1, contacted |-> TRUE]

\* check_toxicity of either client.  backend is what the remote API does
\* with this request: [raises, scores].  contacted says whether the
\* request was sent.
check_toxicity(client, defaults, t, backend) ==
    IF ~client.available
    THEN [is_flagged |-> FALSE, max_score |-> 0, scores |-> EmptyMap,
          client |-> client, contacted |-> FALSE]
    ELSE LET rl == ClientCheckRateLimit(client, t)
             c1 == [client EXCEPT !.request_times = rl.request_times]
         IN  IF ~rl.ok
             THEN [is_flagged |-> FALSE, max_score |-> 0, scores |-> EmptyMap,
                   client |-> c1, contacted |-> FALSE]
             ELSE IF backend.raises
             THEN [is_flagged |-> FALSE, max_score |-> 0, scores |-> EmptyMap,
                   client |-> c1, contacted |-> TRUE]
             ELSE [is_flagged |-> \E c \in DOMAIN backend.scores :
                          backend.scores[c] >= ClientThreshold(defaults, client, c),
                   max_score |-> MaxOf(backend.scores, 0),
                   scores |-> backend.scores,
                   client |-> c1, contacted |-> TRUE]

NewClient(has_key, lib_ok, threshold, rpm) ==
    [available |-> has_key /\ lib_ok, base_threshold |-> threshold,
     requests_per_minute |-> rpm, request_times |-> <<>>]

(***************************************************************************)
(* SmartPreFilter.  A score map (Dict[str, float]) is kept as its three    *)
(* key partitions: bare keys (Detoxify), openai_* and perspective_*, plus  *)
(* the "_trigger_reasons" entry (reason: the must_escalate tag, sources:   *)
(* the ML triggers joined into the string).                                *)
(***************************************************************************)
NoScores == [detoxify |-> EmptyMap, openai |-> EmptyMap, perspective |-> EmptyMap,
             has_trigger_reasons |-> FALSE, reason |-> "", sources |-> {}]

\* every numeric value of a score map
NumericValues(scores) ==
    Range(scores.detoxify) \cup Range(scores.openai) \cup Range(scores.perspective)

MaxSet(S, d) == IF S = {} THEN d ELSE CHOOSE v \in S : \A w \in S : v >= w

\* SmartPreFilter.__init__: libs says which libraries import and load
NewPreFilter(config, libs) ==
    LET skip_detoxify ==
            \/ /\ config.openai_moderation_mode = "only"
               /\ config.openai_moderation_enabled
               /\ (~config.perspective_enabled \/ config.perspective_mode = "only")
            \/ /\ config.perspective_mode = "only"
               /\ config.perspective_enabled
               /\ (~config.openai_moderation_enabled
                   \/ config.openai_moderation_mode = "only")
    IN  [available |-> ~skip_detoxify /\ libs.detoxify,
         has_openai |-> config.openai_moderation_enabled /\ config.openai_moderation_key,
         openai |-> NewClient(config.openai_moderation_key, libs.openai,
                              config.openai_moderation_threshold,
                              config.openai_moderation_rpm),
         has_perspective |-> config.perspective_enabled /\ config.perspective_api_key,
         perspective |-> NewClient(config.perspective_api_key, libs.perspective,
                                   config.perspective_threshold, config.perspective_rpm),
         total |-> 0, must_escalate |-> 0, ml_sent |-> 0,
         openai_mod_flagged |-> 0, perspective_flagged |-> 0,
         detoxify_triggered |-> 0, benign_skipped |-> 0, pattern_skipped |-> 0]

\* _get_ml_scores: [scores, pf, called]
get_ml_scores(pf, text, t, ml) ==
    LET run_detox == pf.available
        detox == IF run_detox /\ ~ml.detoxify.raises
                 THEN ml.detoxify.scores ELSE EmptyMap
        run_openai == pf.has_openai /\ pf.openai.available
        o == check_toxicity(pf.openai, OPENAI_DEFAULT_THRESHOLDS, t, ml.openai)
        run_persp == pf.has_perspective /\ pf.perspective.available
        p == check_toxicity(pf.perspective, PERSPECTIVE_DEFAULT_THRESHOLDS, t,
                            ml.perspective)
    IN  [scores |-> [NoScores EXCEPT
                        !.detoxify = detox,
                        !.openai = IF run_openai THEN o.scores ELSE EmptyMap,
                        !.perspective = IF run_persp THEN p.scores ELSE EmptyMap],
         pf |-> [pf EXCEPT !.openai = IF run_openai THEN o.client ELSE @,
                           !.perspective = IF run_persp THEN p.client ELSE @],
         called |-> (IF run_detox THEN {"detoxify"} ELSE {})
                    \cup (IF run_openai /\ o.contacted THEN {"openai"} ELSE {})
                    \cup (IF run_persp /\ p.contacted THEN {"perspective"} ELSE {})]

\* thresholds that never take the lower value of a directed text
DetoxifyThreshold_undirected(config, label, is_directed) ==
    CASE label = "threat" -> config.threshold_threat
      [] label = "severe_toxicity" -> config.threshold_severe_toxicity
      [] label = "identity_attack" -> config.threshold_identity_attack
      [] label = "insult" -> config.threshold_insult_not_directed
      [] label = "toxicity" -> config.threshold_toxicity_not_directed
      [] label = "obscene" -> config.threshold_obscene
      [] OTHER -> 70

\* thresholds = {...}; thresholds.get(label, 0.7)
DetoxifyThreshold(config, label, is_directed) ==
    CASE label = "threat" -> config.threshold_threat
      [] label = "severe_toxicity" -> config.threshold_severe_toxicity
      [] label = "identity_attack" -> config.threshold_identity_attack
      [] label = "insult" -> IF is_directed THEN config.threshold_insult_directed
                             ELSE config.threshold_insult_not_directed
      [] label = "toxicity" -> IF is_directed THEN config.threshold_toxicity_directed
                               ELSE config.threshold_toxicity_not_directed
      [] label = "obscene" -> config.threshold_obscene
      [] OTHER -> 70

\* "confirm" read as "ask the API when Detoxify did not trigger"
should_call_api_inverted(mode, detoxify_triggered, available) ==
    CASE mode = "all" -> TRUE
      [] mode = "confirm" -> ~detoxify_triggered \/ ~available
      [] mode = "only" -> TRUE
      [] OTHER -> FALSE

\* should_call_api(mode)
should_call_api(mode, detoxify_triggered, available) ==
    CASE mode = "all" -> TRUE
      [] mode = "confirm" -> detoxify_triggered \/ ~available
      [] mode = "only" -> TRUE
      [] OTHER -> FALSE

\* should_analyze, layer 3 (lines 1573-1727)
MLLayer(pf, config, text, is_top_level, t, ml) ==
    LET skip_detoxify ==
            \/ (config.openai_moderation_mode = "only" /\ config.openai_moderation_enabled)
            \/ (config.perspective_mode = "only" /\ config.perspective_enabled)
        run_detox == ~skip_detoxify /\ pf.available
        predicted == run_detox /\ ~ml.detoxify.raises
        detox == IF predicted THEN ml.detoxify.scores ELSE EmptyMap
        is_directed == \/ is_strongly_directed(text)
                       \/ (~is_top_level /\ is_weakly_directed(text))
        identity_attack_score ==
            IF "identity_attack" \in DOMAIN detox THEN detox["identity_attack"] ELSE 0
        contextual_hit == /\ contains_contextual_term(text)
                          /\ (is_directed \/ identity_attack_score > 25)
        label_hit == \E label \in DOMAIN detox :
                        detox[label] >= DetoxifyThreshold(config, label, is_directed)
        detoxify_triggered ==
            IF predicted THEN contextual_hit \/ label_hit
            ELSE IF ~skip_detoxify /\ ~pf.available
                 THEN contains_contextual_term(text) /\ is_strongly_directed(text)
                 ELSE FALSE
        run_openai == /\ pf.has_openai /\ pf.openai.available
                      /\ should_call_api(config.openai_moderation_mode,
                                         detoxify_triggered, pf.available)
        o == check_toxicity(pf.openai, OPENAI_DEFAULT_THRESHOLDS, t, ml.openai)
        openai_mod_triggered == run_openai /\ o.is_flagged
        run_persp == /\ pf.has_perspective /\ pf.perspective.available
                     /\ should_call_api(config.perspective_mode,
                                        detoxify_triggered, pf.available)
        p == check_toxicity(pf.perspective, PERSPECTIVE_DEFAULT_THRESHOLDS, t,
                            ml.perspective)
        perspective_triggered == run_persp /\ p.is_flagged
        scores == [NoScores EXCEPT
                      !.detoxify = detox,
                      !.openai = IF run_openai THEN o.scores ELSE EmptyMap,
                      !.perspective = IF run_persp THEN p.scores ELSE EmptyMap]
        effective_detoxify_triggered ==
            detoxify_triggered /\ config.detoxify_can_escalate
        send == \/ effective_detoxify_triggered
                \/ openai_mod_triggered \/ perspective_triggered
        pf1 == [pf EXCEPT
                  !.openai = IF run_openai THEN o.client ELSE @,
                  !.perspective = IF run_persp THEN p.client ELSE @,
                  !.openai_mod_flagged = IF openai_mod_triggered THEN @ + 1 ELSE @,
                  !.perspective_flagged = IF perspective_triggered THEN @ + 1 ELSE @,
                  !.detoxify_triggered =
                       IF send /\ detoxify_triggered THEN @ + 1 ELSE @,
                  !.ml_sent = IF send THEN @ + 1 ELSE @,
                  !.pattern_skipped = IF send THEN @ ELSE @ + 1]
        called == (IF run_detox THEN {"detoxify"} ELSE {})
                  \cup (IF run_openai /\ o.contacted THEN {"openai"} ELSE {})
                  \cup (IF run_persp /\ p.contacted THEN {"perspective"} ELSE {})
    IN  IF send
        THEN [send |-> TRUE, max_score |-> MaxSet(NumericValues(scores), 50),
              scores |-> [scores EXCEPT
                   !.has_trigger_reasons = TRUE,
                   !.sources = (IF detoxify_triggered THEN {"detoxify"} ELSE {})
                        \cup (IF openai_mod_triggered THEN {"openai"} ELSE {})
                        \cup (IF perspective_triggered THEN {"perspective"} ELSE {})],
              pf |-> pf1, called |-> called, outcome |-> "SEND_TO_LLM"]
        ELSE [send |-> FALSE, max_score |-> MaxSet(NumericValues(scores), 0),
              scores |-> scores, pf |-> pf1, called |-> called, outcome |-> "SKIP"]

\* should_analyze with the benign-phrase skip tested before the patterns
should_analyze_benign_first(pf, config, text, is_top_level, t, ml) ==
    LET pf0 == [pf EXCEPT !.total = @ + 1]
        reason == must_escalate_reason(text, is_top_level)
    IN  IF is_benign_exclamation(text)
        THEN [send |-> FALSE, max_score |-> 0,
              scores |-> [NoScores EXCEPT !.detoxify = [l \in {"benign"} |-> 100]],
              pf |-> [pf0 EXCEPT !.benign_skipped = @ + 1],
              called |-> {}, outcome |-> "BENIGN_SKIP"]
        ELSE IF reason # ""
        THEN LET g == get_ml_scores([pf0 EXCEPT !.must_escalate = @ + 1], text, t, ml)
             IN  [send |-> TRUE, max_score |-> 100,
                  scores |-> [g.scores EXCEPT !.has_trigger_reasons = TRUE,
                                              !.reason = reason],
                  pf |-> g.pf, called |-> g.called, outcome |-> "MUST_ESCALATE"]
        ELSE MLLayer(pf0, config, text, is_top_level, t, ml)

\* should_analyze with the benign-phrase skip left out of the counters
should_analyze_benign_uncounted(pf, config, text, is_top_level, t, ml) ==
    LET pf0 == [pf EXCEPT !.total = @ + 1]
        reason == must_escalate_reason(text, is_top_level)
    IN  IF reason # ""
        THEN LET g == get_ml_scores([pf0 EXCEPT !.must_escalate = @ + 1], text, t, ml)
             IN  [send |-> TRUE, max_score |-> 100,
                  scores |-> [g.scores EXCEPT !.has_trigger_reasons = TRUE,
                                              !.reason = reason],
                  pf |-> g.pf, called |-> g.called, outcome |-> "MUST_ESCALATE"]
        ELSE IF is_benign_exclamation(text)
        THEN [send |-> FALSE, max_score |-> 0,
              scores |-> [NoScores EXCEPT !.detoxify = [l \in {"benign"} |-> 100]],
              pf |-> pf0,
              called |-> {}, outcome |-> "BENIGN_SKIP"]
        ELSE MLLayer(pf0, config, text, is_top_level, t, ml)

\* should_analyze: [send, max_score, scores, pf (the filter afterwards),
\* called (scorers invoked), outcome]
should_analyze(pf, config, text, is_top_level, t, ml) ==
    LET pf0 == [pf EXCEPT !.total = @ + 1]
        reason == must_escalate_reason(text, is_top_level)
    IN  IF reason # ""
        THEN LET g == get_ml_scores([pf0 EXCEPT !.must_escalate = @ + 1], text, t, ml)
             IN  [send |-> TRUE, max_score |-> 100,
                  scores |-> [g.scores EXCEPT !.has_trigger_reasons = TRUE,
                                              !.reason = reason],
                  pf |-> g.pf, called |-> g.called, outcome |-> "MUST_ESCALATE"]
        ELSE IF is_benign_exclamation(text)
        THEN [send |-> FALSE, max_score |-> 0,
              scores |-> [NoScores EXCEPT !.detoxify = [l \in {"benign"} |-> 100]],
              pf |-> [pf0 EXCEPT !.benign_skipped = @ + 1],
              called |-> {}, outcome |-> "BENIGN_SKIP"]
        ELSE MLLayer(pf0, config, text, is_top_level, t, ml)

(***************************************************************************)
(* LLMAnalyzer                                                             *)
(***************************************************************************)
DaySeconds == 86400

\* time.strftime("%Y-%m-%d"): the calendar day of a clock reading
Today(t) == t \div DaySeconds

XAI_MODELS == {"grok-3-mini"}

\* _is_xai_model: the model name starts with "grok-" or "grok/"
is_xai_model(model) == model \in XAI_MODELS

\* LLMAnalyzer.__init__
NewAnalyzer(config, t) ==
    [primary_model |-> config.llm_model,
     fallback_chain |-> config.llm_fallback_chain,
     daily_limit |-> config.llm_daily_limit,
     xai_client |-> config.xai_api_key,
     daily_calls |-> 0,
     last_reset_date |-> Today(t),
     last_request_time |-> 0,
     min_request_interval |-> 60 \div config.llm_requests_per_minute,
     model_cooldowns |-> EmptyMap,
     api_calls |-> 0]

\* _get_current_model: the day rollover; the model returned is always the primary
get_current_model(a, t) ==
    IF Today(t) # a.last_reset_date
    THEN [a EXCEPT !.daily_calls = 0, !.last_reset_date = Today(t),
                   !.model_cooldowns = EmptyMap]
    ELSE a

\* _wait_for_rate_limit: the clock when it returns
wait_for_rate_limit(a, t) ==
    IF t - a.last_request_time < a.min_request_interval
    THEN t + (a.min_request_interval - (t - a.last_request_time))
    ELSE t

RECURSIVE Dedup(_, _)
\* for m in chain: if m not in models_to_try: models_to_try.append(m)
Dedup(acc, chain) ==
    IF chain = <<>> THEN acc
    ELSE Dedup(IF Head(chain) \in Range(acc) THEN acc ELSE Append(acc, Head(chain)),
               Tail(chain))

models_to_try(a) == Dedup(<<a.primary_model>>, a.fallback_chain)

\* self.model_cooldowns.get(model, 0)
CooldownUntil(a, model) ==
    IF model \in DOMAIN a.model_cooldowns THEN a.model_cooldowns[model] ELSE 0

\* a model loop that never looks at the cooldowns
OnCooldown_never(a, model, t) == FALSE

\* time.time() < cooldown_until
OnCooldown(a, model, t) == t < CooldownUntil(a, model)

SetCooldown(a, model, until) ==
    [a EXCEPT !.model_cooldowns =
        [m \in DOMAIN @ \cup {model} |-> IF m = model THEN until ELSE @[m]]]

\* a success that leaves the cooldown entry in place
ClearCooldown_never(a, model) == a

\* del self.model_cooldowns[model]
ClearCooldown(a, model) ==
    [a EXCEPT !.model_cooldowns = [m \in DOMAIN @ \ {model} |-> @[m]]]

\* a primary model that is tried a fourth time
max_retries_four(model_idx) == IF model_idx > 1 THEN 2 ELSE 4

\* max_retries = 2 if model_idx > 0 else 3   (model_idx counts from 1 here)
max_retries(model_idx) == IF model_idx > 1 THEN 2 ELSE 3

fallback_delay == 30
retry_delay == 3

\* _check_rate_limit_headers: remaining is x-ratelimit-remaining-requests,
\* -1 when the header is absent
check_rate_limit_headers(a, model, remaining, t) ==
    IF remaining >= 0 /\ remaining <= 5
    THEN SetCooldown(a, model, t + 600)
    ELSE a

\* _parse_retry_time(str(e)), 0 for None: re.search finds the pattern, all
\* of whose groups are optional, at position 0, so a duration is read only
\* when the text begins with it
parse_retry_time(error_str) ==
    IF error_str.leading_words THEN 0 ELSE error_str.duration

\* the ten-minute cooldown of an unknown wait, set for a used-up daily quota
DailyExhaustedCooldown_ten_minutes(t) == t + 600

\* cooldown_time = 3600; self.model_cooldowns[model] = time.time() + cooldown_time
DailyExhaustedCooldown(t) == t + 3600

\* the cooldown without its two-minute floor
LongWaitCooldown_no_floor(suggested_wait) == Min2(suggested_wait + 60, 3600)

\* min(max(suggested_wait + 60, 120), 3600)
LongWaitCooldown(suggested_wait) == Min2(Max2(suggested_wait + 60, 120), 3600)

(***************************************************************************)
(* A model response is what the parser of analyze() sees in it: content    *)
(* None, the token VERDICT: present, a line that starts with VERDICT and   *)
(* has a colon, REPORT in that line's value, REPORT and BENIGN anywhere.   *)
(***************************************************************************)
\* lines 2230-2281: "REPORT", "BENIGN", or "raise" when .strip() of None raises
parse_verdict(content) ==
    IF content.none THEN "raise"
    ELSE IF content.verdict_token
         THEN IF content.verdict_line /\ content.value_has_report
              THEN "REPORT" ELSE "BENIGN"
         ELSE IF content.has_report /\ ~content.has_benign
              THEN "REPORT" ELSE "BENIGN"

\* analyze() without its outer except: the exception of the try body escapes
analysis_result_no_except(success, content) ==
    IF success /\ parse_verdict(content) # "raise"
    THEN [verdict |-> parse_verdict(content), unavailable |-> FALSE, raised |-> FALSE]
    ELSE [verdict |-> "", unavailable |-> FALSE, raised |-> TRUE]

\* analyze(): the AnalysisResult built from the outcome of the model loop
analysis_result(success, content) ==
    IF success /\ parse_verdict(content) # "raise"
    THEN [verdict |-> parse_verdict(content), unavailable |-> FALSE, raised |-> FALSE]
    ELSE [verdict |-> "BENIGN", unavailable |-> TRUE, raised |-> FALSE]

(***************************************************************************)
(* Report, auto-remove and the tracking files                              *)
(***************************************************************************)
\* the per-scorer test of check_auto_remove_consensus
ModelPasses(scores, config, model) ==
    CASE model = "detoxify" ->
            MaxOf(scores.detoxify, 0) >= config.auto_remove_detoxify_min
      [] model = "openai" ->
            MaxOf(scores.openai, 0) >= config.auto_remove_openai_min
      [] model = "perspective" ->
            MaxOf(scores.perspective, 0) >= config.auto_remove_perspective_min
      [] OTHER -> FALSE

\* check_auto_remove_consensus: should_auto_remove
check_auto_remove_consensus(scores, config, is_pattern_match) ==
    IF ~config.auto_remove_enabled THEN FALSE
    ELSE IF is_pattern_match THEN config.auto_remove_on_pattern_match
    ELSE IF config.auto_remove_require_models = <<>> THEN FALSE
    ELSE Cardinality({i \in DOMAIN config.auto_remove_require_models :
                        ModelPasses(scores, config, config.auto_remove_require_models[i])})
            >= config.auto_remove_min_consensus

\* "_trigger_reasons" in detox_scores and "must_escalate" in detox_scores.get(...)
IsPatternMatch(scores) == scores.has_trigger_reasons /\ scores.reason # ""

\* file_report: platform.report says whether the platform's report call raises.
\* TRUE when file_report raises.
file_report(config, platform) == platform.report_raises

\* a removal counted as done whatever mod.remove did
auto_remove_comment_always(platform) == TRUE

\* auto_remove_comment: TRUE if removed, FALSE when mod.remove raised
auto_remove_comment(platform) == ~platform.remove_raises

\* time.strftime("%Y-%m-%dT%H:%M:%SZ", time.gmtime()) at time t: the calendar
\* fields of t in UTC, as <<day, second of the day>>
strftime_gmtime(t) == <<t \div DaySeconds, t % DaySeconds>>

\* the empty string a timestamp field holds before it is set
NoTimestamp == <<>>

\* time.mktime(time.strptime(s, "%Y-%m-%dT%H:%M:%SZ")): strptime leaves the zone
\* open and mktime reads the fields as local time, offset seconds ahead of UTC
mktime_strptime(s, offset) == s[1] * DaySeconds + s[2] - offset

\* track_reported_comment on the content of reported_comments.json
track_reported_comment(comments, comment_id, detoxify_score, is_top_level, t) ==
    IF \E i \in DOMAIN comments : comments[i].comment_id = comment_id
    THEN comments
    ELSE Append(comments, [comment_id |-> comment_id,
                           detoxify_score |-> detoxify_score,
                           is_top_level |-> is_top_level,
                           reported_at |-> strftime_gmtime(t),
                           outcome |-> "pending",
                           checked_at |-> NoTimestamp])

(***************************************************************************)
(* Outcome reconciliation of reported_comments.json                        *)
(***************************************************************************)
HourSeconds == 3600

\* the stats dict of a reconciliation pass
NoStats == [checked |-> 0, removed |-> 0, approved |-> 0, still_pending |-> 0,
            errors |-> 0]

\* what fetching comment.body and the removal attributes can give
FetchOutcomes == {"removed_body", "removed_attr", "removed_by_category",
                  "readable", "not_found", "error"}

\* lines 158 and 2651: an entry that is not pending is passed over
skip_resolved_never(entry) == FALSE
skip_resolved(entry) == entry.outcome # "pending"

\* lines 162-171 and 2655-2664: the entry is younger than the maturation window
too_young(entry, now0, offset, min_age_hours) ==
    /\ entry.reported_at # NoTimestamp
    /\ now0 - mktime_strptime(entry.reported_at, offset) < min_age_hours * HourSeconds

\* the outcome a fetch result stands for; "" when the fetch raised something
\* other than NotFound
fetched_outcome(result) ==
    CASE result \in {"removed_body", "removed_attr"} -> "removed"
      [] result = "removed_by_category" -> "removed"
      [] result = "readable" -> "approved"
      [] result = "not_found" -> "removed"
      [] OTHER -> ""

\* track_false_positive on the content of false_positives.json
track_false_positive(entries, comment_id, reported_at, t) ==
    IF \E i \in DOMAIN entries : entries[i].comment_id = comment_id
    THEN entries
    ELSE Append(entries, [comment_id |-> comment_id, reported_at |-> reported_at,
                          discovered_at |-> strftime_gmtime(t)])

Bump(stats, key) == [stats EXCEPT ![key] = @ + 1]

\* one turn of the for-loop of a reconciliation pass, on entry i.  st holds the
\* locals of the pass and the content of false_positives.json; now0 is the
\* time.time() read before the loop, t the time of the turn; track says whether
\* the pass is check_and_track_false_positives.
reconcile_entry(i, st, now0, t, offset, min_age_hours, fetch, track) ==
    LET entry == st.comments[i]
        result == fetch[entry.comment_id]
        outcome == fetched_outcome(result)
    IN  IF skip_resolved(entry) THEN st
        ELSE IF too_young(entry, now0, offset, min_age_hours)
        THEN [st EXCEPT !.stats = Bump(@, "still_pending")]
        ELSE IF entry.comment_id = "" THEN st
        ELSE IF outcome = ""
        THEN [st EXCEPT !.stats = Bump(@, "errors"),
                        !.queried = Append(@, entry.comment_id)]
        ELSE [st EXCEPT !.comments[i].outcome = outcome,
                        !.comments[i].checked_at = strftime_gmtime(t),
                        !.stats = Bump(Bump(@, outcome), "checked"),
                        !.queried = Append(@, entry.comment_id),
                        !.false_positives =
                            IF track /\ outcome = "approved"
                            THEN track_false_positive(@, entry.comment_id,
                                                      entry.reported_at, t)
                            ELSE @,
                        !.new_false_positives =
                            IF track /\ outcome = "approved"
                            THEN Append(@, entry.comment_id) ELSE @]

RECURSIVE reconcile_from(_, _, _, _, _, _, _, _)
reconcile_from(i, st, now0, t, offset, min_age_hours, fetch, track) ==
    IF i > Len(st.comments) THEN st
    ELSE reconcile_from(i + 1,
                        reconcile_entry(i, st, now0, t, offset, min_age_hours,
                                        fetch, track),
                        now0, t, offset, min_age_hours, fetch, track)

\* the locals of a pass that has loaded comments and not yet looked at any
PassLocals(comments, fps) ==
    [comments |-> comments, stats |-> NoStats, queried |-> <<>>,
     false_positives |-> fps, new_false_positives |-> <<>>]

\* check_reported_outcomes up to its save: the loop on the loaded comments
check_reported_outcomes(comments, fps, t, offset, min_age_hours, fetch) ==
    reconcile_from(1, PassLocals(comments, fps), t, t, offset, min_age_hours,
                   fetch, FALSE)

MATURATION_HOURS == 24

\* check_and_track_false_positives up to its save
check_and_track_false_positives(comments, fps, t, offset, fetch) ==
    reconcile_from(1, PassLocals(comments, fps), t, t, offset, MATURATION_HOURS,
                   fetch, TRUE)

\* cleanup_old_tracked up to its save: the filtered list.  An entry is kept
\* if it is pending, has no checked_at, or was checked less than max_age_days ago.
cleanup_old_tracked(comments, t, offset, max_age_days) ==
    SelectSeq(comments,
              LAMBDA entry :
                  \/ entry.outcome = "pending"
                  \/ entry.checked_at = NoTimestamp
                  \/ t - mktime_strptime(entry.checked_at, offset)
                       < max_age_days * DaySeconds)

BENIGN_TRACKING_MAX_AGE_HOURS == 48

\* track_benign_analyzed on the content of benign_analyzed.json
track_benign_analyzed(comments, comment_id, detoxify_score, t) ==
    LET cutoff == t - BENIGN_TRACKING_MAX_AGE_HOURS * 3600
        kept == SelectSeq(comments, LAMBDA c : c.timestamp > cutoff)
    IN  IF \E i \in DOMAIN kept : kept[i].comment_id = comment_id
        THEN kept
        ELSE Append(kept, [comment_id |-> comment_id,
                           detoxify_score |-> detoxify_score,
                           timestamp |-> t])

\* a pass that reports whenever analyze() gave no usable answer as well
should_report_or_unavailable(result) ==
    result.verdict = "REPORT" \/ result.unavailable

\* process_thing line 2983
should_report(result) ==
    result.verdict = "REPORT"

\* the platform is called in dry-run mode too
calls_platform_in_dry_run(config, reporting) ==
    config.enable_reddit_reports /\ reporting

\* process_thing lines 3018-3030: the pass reaches file_report
calls_platform(config, reporting) ==
    config.enable_reddit_reports /\ reporting /\ ~config.dry_run

\* the removal placed outside the try block of the report
removal_called_unguarded(calling, report_raised, should_auto_remove) ==
    calling /\ should_auto_remove

\* process_thing lines 3030-3037: auto_remove_comment runs after file_report
\* returned, inside the same try block
removal_called(calling, report_raised, should_auto_remove) ==
    calling /\ ~report_raised /\ should_auto_remove

\* process_thing from line 2983 on: what the pass does once analyze() returned.
\* [report_called, report_raised, remove_called, auto_removed, tracked, benign,
\*  would_report, would_remove, notified]
act_on_verdict(config, result, item, detox_score, scores, comments, benign_comments, platform, t) ==
    LET reporting == should_report(result)
        benign1 == IF reporting THEN benign_comments
                   ELSE track_benign_analyzed(benign_comments, item.id, detox_score, t)
        acting == config.enable_reddit_reports /\ reporting
        should_auto_remove ==
            acting /\ check_auto_remove_consensus(scores, config, IsPatternMatch(scores))
        calling == calls_platform(config, reporting)
        report_raised == calling /\ file_report(config, platform)
        remove_called == removal_called(calling, report_raised, should_auto_remove)
        auto_removed == remove_called /\ auto_remove_comment(platform)
        tracking == calling /\ ~report_raised
    IN  [report_called |-> calling,
         report_raised |-> report_raised,
         remove_called |-> remove_called,
         auto_removed |-> auto_removed,
         tracked |-> IF tracking
                     THEN track_reported_comment(comments, item.id, detox_score,
                                                 item.is_top_level, t)
                     ELSE comments,
         benign |-> benign1,
         would_report |-> reporting,
         would_remove |-> should_auto_remove,
         notified |-> IF ~tracking THEN "none"
                      ELSE IF auto_removed THEN "auto_remove" ELSE "report"]

(***************************************************************************)
(* Inputs                                                                  *)
(***************************************************************************)
MaxEarlyRules == 2   \* unconditional rules one text matches at once

PlainText == [early |-> {}, shill |-> FALSE, dismissive |-> "", insult |-> FALSE,
              strong |-> FALSE, weak |-> FALSE, benign_phrase |-> FALSE,
              contextual |-> FALSE]

\* every text, by what the matchers see in it
FilterTexts ==
    [early : {e \in SUBSET EarlyRuleSet : Cardinality(e) <= MaxEarlyRules},
     shill : BOOLEAN, dismissive : {"", "hard", "soft"}, insult : BOOLEAN,
     strong : BOOLEAN, weak : BOOLEAN, benign_phrase : BOOLEAN,
     contextual : BOOLEAN]

\* texts no pattern rule looks at
ScoredTexts ==
    {[PlainText EXCEPT !.strong = s, !.weak = w, !.contextual = c] :
        s \in BOOLEAN, w \in BOOLEAN, c \in BOOLEAN}

SlurText == [PlainText EXCEPT !.early = {"slur"}]
LolText == [PlainText EXCEPT !.benign_phrase = TRUE]
LolYouText == [PlainText EXCEPT !.benign_phrase = TRUE, !.strong = TRUE]

DetoxLabels == {"toxicity", "severe_toxicity", "obscene", "threat", "insult",
                "identity_attack"}

\* Detoxify.predict: every label near zero but one
DetoxScores(label, v) == [l \in DetoxLabels \cup {label} |-> IF l = label THEN v ELSE 1]

Predict(scores) == [raises |-> FALSE, scores |-> scores]
Raises == [raises |-> TRUE, scores |-> EmptyMap]

\* what the three scorers may answer about one text
MLOutputs ==
    [detoxify :
        {Raises} \cup
        {Predict(DetoxScores(x[1], x[2])) :
            x \in {<<"toxicity", 1>>, <<"toxicity", 45>>, <<"toxicity", 55>>,
                   <<"insult", 45>>, <<"identity_attack", 26>>, <<"threat", 15>>,
                   <<"sexual_explicit", 70>>, <<"toxicity", 80>>}},
     openai :
        {Raises,
         Predict([c \in {"harassment", "illicit"} |-> 2]),
         Predict([c \in {"harassment", "illicit"} |->
                     IF c = "harassment" THEN 80 ELSE 2])},
     perspective :
        {Raises,
         Predict([c \in {"TOXICITY", "THREAT"} |-> 3]),
         Predict([c \in {"TOXICITY", "THREAT"} |->
                     IF c = "TOXICITY" THEN 85 ELSE 3])}]

MLLow == [detoxify |-> Predict(DetoxScores("toxicity", 1)),
          openai |-> Predict([c \in {"harassment", "illicit"} |-> 2]),
          perspective |-> Predict([c \in {"TOXICITY", "THREAT"} |-> 3])]


MLHigh == [detoxify |-> Predict(DetoxScores("toxicity", 80)),
           openai |-> Predict([c \in {"harassment", "illicit"} |->
                                   IF c = "harassment" THEN 80 ELSE 2]),
           perspective |-> Predict([c \in {"TOXICITY", "THREAT"} |->
                                   IF c = "TOXICITY" THEN 85 ELSE 3])]

\* load_config with an empty environment, but for the arbiter's chain
DefaultConfig ==
    [llm_model |-> "groq/compound",
     llm_fallback_chain |-> <<"llama-3.3-70b-versatile", "groq/compound", "grok-3-mini">>,
     llm_daily_limit |-> 240,
     llm_requests_per_minute |-> 2,
     xai_api_key |-> FALSE,
     detoxify_can_escalate |-> TRUE,
     openai_moderation_key |-> FALSE,
     openai_moderation_enabled |-> FALSE,
     openai_moderation_threshold |-> 50,
     openai_moderation_rpm |-> 30,
     openai_moderation_mode |-> "confirm",
     perspective_api_key |-> FALSE,
     perspective_enabled |-> FALSE,
     perspective_threshold |-> 70,
     perspective_rpm |-> 60,
     perspective_mode |-> "confirm",
     threshold_threat |-> 15,
     threshold_severe_toxicity |-> 20,
     threshold_identity_attack |-> 25,
     threshold_insult_directed |-> 40,
     threshold_insult_not_directed |-> 60,
     threshold_toxicity_directed |-> 40,
     threshold_toxicity_not_directed |-> 50,
     threshold_obscene |-> 90,
     threshold_borderline |-> 35,
     auto_remove_enabled |-> FALSE,
     auto_remove_require_models |-> <<"openai", "perspective">>,
     auto_remove_min_consensus |-> 2,
     auto_remove_detoxify_min |-> 70,
     auto_remove_openai_min |-> 70,
     auto_remove_perspective_min |-> 70,
     auto_remove_on_pattern_match |-> FALSE,
     enable_reddit_reports |-> TRUE,
     dry_run |-> FALSE]

\* an external scorer: off, or on (with its key) in one of the three modes
ScorerSettings == {"off", "all", "confirm", "only"}

WithScorers(config, o, p) ==
    [config EXCEPT
        !.openai_moderation_enabled = o # "off",
        !.openai_moderation_key = o # "off",
        !.openai_moderation_mode = IF o = "off" THEN "confirm" ELSE o,
        !.perspective_enabled = p # "off",
        !.perspective_api_key = p # "off",
        !.perspective_mode = IF p = "off" THEN "confirm" ELSE p]

AllLibs == [detoxify |-> TRUE, openai |-> TRUE, perspective |-> TRUE]

FilterConfigs ==
    {[WithScorers(DefaultConfig, o, p) EXCEPT !.detoxify_can_escalate = e] :
        o \in ScorerSettings, p \in ScorerSettings, e \in BOOLEAN}

PipelineConfigs ==
    {[WithScorers(DefaultConfig, "all", "all") EXCEPT
         !.dry_run = d, !.enable_reddit_reports = r,
         !.auto_remove_enabled = a[1], !.auto_remove_on_pattern_match = a[2]] :
        d \in BOOLEAN, r \in BOOLEAN,
        a \in {<<TRUE, FALSE>>, <<TRUE, TRUE>>}}

ArbiterConfigs ==
    {[DefaultConfig EXCEPT !.xai_api_key = x] : x \in BOOLEAN}

Ids == {"t1_a", "t1_b"}

Content(token, line, value_report, report, benign) ==
    [none |-> FALSE, verdict_token |-> token, verdict_line |-> line,
     value_has_report |-> value_report, has_report |-> report, has_benign |-> benign]

ContentReport == Content(TRUE, TRUE, TRUE, TRUE, FALSE)       \* "VERDICT: REPORT\nREASON: ..."
ContentBenign == Content(TRUE, TRUE, FALSE, FALSE, TRUE)      \* "VERDICT: BENIGN\nREASON: ..."
ContentFreeBoth == Content(FALSE, FALSE, FALSE, TRUE, TRUE)   \* "REPORT or BENIGN? benign"
ContentNone == [Content(FALSE, FALSE, FALSE, FALSE, FALSE) EXCEPT !.none = TRUE]

\* suggested_wait is the retry-after header of the error response (0:
\* absent); error_str is str(e): the wait it names in seconds (0: none) and
\* whether words stand before it ("Error code: 429 - ... try again in 45s")
Success(content, remaining) ==
    [kind |-> "success", content |-> content, remaining |-> remaining,
     daily_exhausted |-> FALSE, suggested_wait |-> 0,
     error_str |-> [leading_words |-> TRUE, duration |-> 0]]
RateLimit(daily_exhausted, suggested_wait) ==
    [kind |-> "rate_limit", content |-> ContentNone, remaining |-> -1,
     daily_exhausted |-> daily_exhausted, suggested_wait |-> suggested_wait,
     error_str |-> [leading_words |-> TRUE, duration |-> suggested_wait]]
OtherError ==
    [kind |-> "error", content |-> ContentNone, remaining |-> -1,
     daily_exhausted |-> FALSE, suggested_wait |-> 0,
     error_str |-> [leading_words |-> TRUE, duration |-> 0]]

\* what a backend may answer to one request: a verdict in one of the formats
\* the parser knows, an empty content, nearly exhausted rate-limit headers, a
\* rate limit (daily quota used up, a short wait, a long wait), another error
ArbiterOutcomes ==
    {Success(ContentReport, -1), Success(ContentBenign, -1), Success(ContentReport, 3),
     Success(ContentFreeBoth, -1), Success(ContentNone, -1),
     RateLimit(TRUE, 0), RateLimit(FALSE, 30), RateLimit(FALSE, 45),
     OtherError}

PipelineOutcomes ==
    {Success(ContentReport, -1), Success(ContentBenign, -1), OtherError}

Platforms == [report_raises : BOOLEAN, remove_raises : BOOLEAN]

(***************************************************************************)
(* State                                                                   *)
(***************************************************************************)
VARIABLES
    cfg,       \* Config
    pf,        \* the SmartPreFilter
    an,        \* the LLMAnalyzer
    now,       \* time.time()
    pc,        \* where the main loop is: "idle", "select", "attempt", "finish"
    cur,       \* locals of process_thing and analyze for the item in hand
    tracked,   \* content of reported_comments.json
    benign,    \* content of benign_analyzed.json
    reports,   \* platform: report() invocations per item id
    removes,   \* platform: remove() invocations per item id
    items,     \* process_thing invocations so far
    nreq,      \* backend requests so far
    calls,     \* backend requests of the analyze() call in hand
    last,      \* what the last finished process_thing pass did
    main,      \* main(): whether its loop runs, and the exceptions it has seen
    modlog,    \* refresh_modlog: the outcomes file and the last run's result
    fin,       \* stand-alone should_analyze call: its arguments
    fres,      \* stand-alone should_analyze call: what it returned
    false_positives, \* content of false_positives.json
    tracker,   \* main thread: locals of the track_reported_comment call in hand
    reconciler, \* accuracy thread: position and locals of accuracy_check_loop
    utc_offset \* the process's time zone: local time minus UTC, in seconds

vars == <<cfg, pf, an, now, pc, cur, tracked, benign, reports, removes, items,
          nreq, calls, last, fin, fres, false_positives, tracker, reconciler,
          utc_offset, main, modlog>>

StartTime == DaySeconds - 700

CurIdle == [item |-> [id |-> "", text |-> PlainText, is_top_level |-> FALSE,
                     has_text |-> FALSE],
            detox_score |-> 0, scores |-> NoScores,
            outcome |-> "", called |-> {},
            chain |-> <<>>, model_idx |-> 0, attempt |-> 0,
            success |-> FALSE, content |-> ContentNone, model |-> "",
            skipped |-> {}]

NoPass == [id |-> "", text |-> PlainText, send |-> FALSE, outcome |-> "", called |-> {},
           analyzed |-> FALSE, success |-> FALSE, model |-> "",
           verdict |-> "", unavailable |-> FALSE, raised |-> FALSE,
           detox_score |-> 0, skipped |-> {}, requests |-> 0,
           report_called |-> FALSE, report_raised |-> FALSE, remove_raised |-> FALSE,
           remove_called |-> FALSE, auto_removed |-> FALSE,
           would_report |-> FALSE, would_remove |-> FALSE, notified |-> "none"]

NoFilterCall == [text |-> PlainText, is_top_level |-> FALSE, ml |-> MLLow,
                 libs |-> AllLibs]

\* track_reported_comment not in progress
TrackerIdle == [pc |-> "idle", comments |-> <<>>, comment_id |-> ""]

\* accuracy_check_loop before its thread has run
ReconcilerIdle == [pc |-> "start", wake_at |-> 0, op |-> "", loaded |-> <<>>,
                   comments |-> <<>>, stats |-> NoStats, queried |-> <<>>,
                   new_false_positives |-> <<>>, started_at |-> 0,
                   runs |-> 0, sleeps |-> 0, removed |-> 0]

\* no refresh_modlog call made so far; file is the outcomes file on disk
NoRefresh(file) ==
    [file |-> file, runs |-> 0, raised |-> FALSE, seen |-> {},
     written |-> 0, scanned |-> 0, scans |-> <<>>, slept |-> 0]

InitIn(config, libs, call, offset, file) ==
    /\ main = [running |-> TRUE, caught |-> <<>>]   \* main() enters its loop
    /\ modlog = NoRefresh(file)
    /\ false_positives = <<>>
    /\ tracker = TrackerIdle
    /\ reconciler = ReconcilerIdle
    /\ utc_offset = offset
    /\ cfg = config
    /\ pf = NewPreFilter(config, libs)
    /\ an = NewAnalyzer(config, StartTime)
    /\ now = StartTime
    /\ pc = "idle"
    /\ cur = CurIdle
    /\ tracked = <<>>
    /\ benign = <<>>
    /\ reports = [i \in Ids |-> 0]
    /\ removes = [i \in Ids |-> 0]
    /\ items = 0
    /\ nreq = 0
    /\ calls = <<>>
    /\ last = NoPass
    /\ fin = call
    /\ fres = [done |-> FALSE, send |-> FALSE, max_score |-> 0,
               scores |-> NoScores, called |-> {}, outcome |-> ""]

InitWith(config, libs, call) == InitIn(config, libs, call, 0, <<>>)

(***************************************************************************)
(* The main loop: process_thing on the next stream item                    *)
(***************************************************************************)
\* process_thing up to its return at line 2906 or 2942: the item has no text
\* or the pre-filter does not send it.  delay is how long the stream blocked.
Skip(item, delay, ml) ==
    /\ pc = "idle"
    /\ items < MaxItems
    /\ LET t == now + delay
           r == should_analyze(pf, cfg, item.text, item.is_top_level, t, ml)
       IN  /\ ~item.has_text \/ ~r.send
           /\ now' = t
           /\ pf' = IF item.has_text THEN r.pf ELSE pf
           /\ last' = IF item.has_text
                      THEN [NoPass EXCEPT !.id = item.id, !.text = item.text,
                                          !.outcome = r.outcome,
                                          !.called = r.called,
                                          !.detox_score = r.max_score]
                      ELSE [NoPass EXCEPT !.id = item.id, !.outcome = "NO_TEXT"]
    /\ items' = items + 1
    /\ UNCHANGED <<main, modlog, false_positives, tracker, reconciler, utc_offset,
                   cfg, an, pc, cur, tracked, benign, reports, removes, nreq, calls,
                   fin, fres>>

\* process_thing up to the model loop of analyze(): the pre-filter sends the
\* item; analyze() does the day rollover, waits for its rate limit, counts the
\* call and builds models_to_try (lines 2901-2965, 2008-2060)
Escalate(item, delay, ml) ==
    /\ pc = "idle"
    /\ items < MaxItems
    /\ item.has_text
    /\ LET t == now + delay
           r == should_analyze(pf, cfg, item.text, item.is_top_level, t, ml)
           a1 == get_current_model(an, t)
           t2 == wait_for_rate_limit(a1, t)
       IN  /\ r.send
           /\ pf' = r.pf
           /\ now' = t2
           /\ an' = [a1 EXCEPT !.last_request_time = t2,
                               !.api_calls = @ + 1, !.daily_calls = @ + 1]
           /\ cur' = [CurIdle EXCEPT !.item = item, !.detox_score = r.max_score,
                                     !.scores = r.scores, !.outcome = r.outcome,
                                     !.called = r.called,
                                     !.chain = models_to_try(a1), !.model_idx = 1]
    /\ pc' = "select"
    /\ calls' = <<>>
    /\ UNCHANGED <<main, modlog, false_positives, tracker, reconciler, utc_offset,
                   cfg, tracked, benign, reports, removes, items, nreq, last, fin, fres>>

\* analyze(), head of one iteration of the model loop (lines 2062-2088)
SelectModel ==
    /\ pc = "select"
    /\ IF cur.model_idx > Len(cur.chain)
       THEN /\ pc' = "finish"
            /\ UNCHANGED <<cur, now>>
       ELSE LET model == cur.chain[cur.model_idx]
                t2 == IF cur.model_idx > 1 THEN now + fallback_delay ELSE now
            IN  IF OnCooldown(an, model, now)
                THEN /\ cur' = [cur EXCEPT !.model_idx = @ + 1,
                                           !.skipped = @ \cup {model}]
                     /\ UNCHANGED <<pc, now>>
                ELSE IF is_xai_model(model) /\ ~an.xai_client
                THEN /\ cur' = [cur EXCEPT !.model_idx = @ + 1]
                     /\ now' = t2
                     /\ UNCHANGED pc
                ELSE /\ cur' = [cur EXCEPT !.attempt = 0]
                     /\ now' = t2
                     /\ pc' = "attempt"
    /\ UNCHANGED <<main, modlog, false_positives, tracker, reconciler, utc_offset,
                   cfg, pf, an, tracked, benign, reports, removes, items, nreq,
                   calls, last, fin, fres>>

\* a retry loop that goes round again where it should leave
NextModel_retry == /\ cur' = [cur EXCEPT !.attempt = @ + 1]
                   /\ UNCHANGED pc

\* the retry loop leaves for the next model
NextModel == /\ cur' = [cur EXCEPT !.model_idx = @ + 1]
             /\ pc' = "select"

\* the retry loop sleeps and tries the same model again
RetryAfter(wait) == /\ cur' = [cur EXCEPT !.attempt = @ + 1]
                    /\ now' = now + wait
                    /\ UNCHANGED <<pc, an>>

\* analyze(), one backend request and what the retry loop does with its
\* outcome o (lines 2090-2224)
Attempt(o) ==
    /\ pc = "attempt"
    /\ nreq < MaxRequests
    /\ nreq' = nreq + 1
    /\ LET model == cur.chain[cur.model_idx]
           last_attempt == ~(cur.attempt < max_retries(cur.model_idx) - 1)
           suggested_wait == IF o.suggested_wait > 0 THEN o.suggested_wait
                             ELSE parse_retry_time(o.error_str)
       IN  /\ calls' = Append(calls, [model |-> model, at |-> now, kind |-> o.kind,
                                      cooldown_until |-> CooldownUntil(an, model),
                                      daily_exhausted |-> o.daily_exhausted,
                                      named_wait |-> Max2(o.suggested_wait,
                                                          o.error_str.duration),
                                      remaining_requests |->
                                          IF is_xai_model(model) THEN -1
                                          ELSE o.remaining])
           /\ CASE o.kind = "success" ->
                    /\ an' = check_rate_limit_headers(
                                ClearCooldown(an, model), model,
                                IF is_xai_model(model) THEN -1 ELSE o.remaining, now)
                    /\ cur' = [cur EXCEPT !.success = TRUE, !.content = o.content,
                                          !.model = model]
                    /\ pc' = "finish"
                    /\ UNCHANGED now
                [] o.kind = "rate_limit" ->
                    IF o.daily_exhausted
                    THEN /\ an' = SetCooldown(an, model, DailyExhaustedCooldown(now))
                         /\ NextModel /\ UNCHANGED now
                    ELSE IF suggested_wait > 0 /\ suggested_wait <= 30
                            /\ ~last_attempt
                    THEN RetryAfter(suggested_wait)
                    ELSE IF suggested_wait > 30
                    THEN /\ an' = SetCooldown(an, model,
                                        now + LongWaitCooldown(suggested_wait))
                         /\ NextModel /\ UNCHANGED now
                    ELSE IF ~last_attempt
                    THEN RetryAfter(retry_delay * (cur.attempt + 1))
                    ELSE /\ an' = SetCooldown(an, model, now + 600)
                         /\ NextModel /\ UNCHANGED now
                [] OTHER ->
                    /\ NextModel /\ UNCHANGED <<an, now>>
    /\ UNCHANGED <<main, modlog, false_positives, tracker, reconciler, utc_offset,
                   cfg, pf, tracked, benign, reports, removes, items, last, fin, fres>>

\* analyze() returns its AnalysisResult and process_thing acts on it
\* (lines 2226-2298, 2967-3072)
Finish(platform) ==
    /\ pc = "finish"
    /\ LET res == analysis_result(cur.success, cur.content)
           act == act_on_verdict(cfg, res, cur.item, cur.detox_score, cur.scores,
                                 tracked, benign, platform, now)
           id == cur.item.id
           done == [NoPass EXCEPT !.id = id, !.text = cur.item.text,
                                  !.send = TRUE, !.outcome = cur.outcome,
                                  !.called = cur.called, !.analyzed = TRUE,
                                  !.success = cur.success, !.model = cur.model,
                                  !.verdict = res.verdict,
                                  !.unavailable = res.unavailable,
                                  !.raised = res.raised,
                                  !.detox_score = cur.detox_score,
                                  !.skipped = cur.skipped,
                                  !.requests = Len(calls)]
       IN  IF res.raised
           THEN /\ last' = done
                /\ UNCHANGED <<tracked, benign, reports, removes>>
           ELSE /\ tracked' = act.tracked
                /\ benign' = act.benign
                /\ reports' = [reports EXCEPT ![id] = IF act.report_called THEN @ + 1 ELSE @]
                /\ removes' = [removes EXCEPT ![id] = IF act.remove_called THEN @ + 1 ELSE @]
                /\ last' = [done EXCEPT !.report_called = act.report_called,
                                        !.report_raised = act.report_raised,
                                        !.remove_called = act.remove_called,
                                        !.remove_raised = act.remove_called /\ platform.remove_raises,
                                        !.auto_removed = act.auto_removed,
                                        !.would_report = act.would_report,
                                        !.would_remove = act.would_remove,
                                        !.notified = act.notified]
    /\ pc' = "idle"
    /\ cur' = CurIdle
    /\ calls' = <<>>
    /\ items' = items + 1
    /\ UNCHANGED <<main, modlog, false_positives, tracker, reconciler, utc_offset,
                   cfg, pf, an, now, nreq, fin, fres>>

(***************************************************************************)
(* Spec: the main loop on a stream of items                                *)
(***************************************************************************)
\* a stream item and what the scorers say about its text
Arrival(id, text, has_text, ml) ==
    [item |-> [id |-> id, text |-> text, is_top_level |-> FALSE, has_text |-> has_text],
     ml |-> ml]

PipelineItems ==
    UNION {{Arrival(id, SlurText, TRUE, MLHigh), Arrival(id, LolText, TRUE, MLHigh),
            Arrival(id, LolYouText, TRUE, MLLow), Arrival(id, LolYouText, TRUE, MLHigh),
            Arrival(id, PlainText, FALSE, MLLow)} : id \in Ids}

Init == \E config \in PipelineConfigs : InitWith(config, AllLibs, NoFilterCall)

Next ==
    \/ \E a \in PipelineItems : Skip(a.item, 0, a.ml)
    \/ \E a \in PipelineItems : Escalate(a.item, 0, a.ml)
    \/ SelectModel
    \/ \E o \in PipelineOutcomes : Attempt(o)
    \/ \E platform \in Platforms : Finish(platform)

Spec == Init /\ [][Next]_vars

(***************************************************************************)
(* SpecArbiter: analyze() against backends that answer anything            *)
(***************************************************************************)
\* what arrives, after how long, and what the scorers say: a pattern match
\* (score 1.0) inside a cooldown window, a Detoxify hit (score 0.55) past midnight
ArbiterItems ==
    {[item |-> [id |-> "t1_a", text |-> SlurText, is_top_level |-> FALSE,
                has_text |-> TRUE],
      delay |-> 60, ml |-> MLHigh],
     [item |-> [id |-> "t1_b", text |-> PlainText, is_top_level |-> FALSE,
                has_text |-> TRUE],
      delay |-> 800,
      ml |-> [MLLow EXCEPT !.detoxify = Predict(DetoxScores("toxicity", 55))]]}

InitArbiter == \E config \in ArbiterConfigs : InitWith(config, AllLibs, NoFilterCall)

NextArbiter ==
    \/ \E a \in ArbiterItems : Escalate(a.item, a.delay, a.ml)
    \/ SelectModel
    \/ \E o \in ArbiterOutcomes : Attempt(o)
    \/ Finish([report_raises |-> FALSE, remove_raises |-> FALSE])

SpecArbiter == InitArbiter /\ [][NextArbiter]_vars

(***************************************************************************)
(* SpecRetry: the retry loop of analyze() against rate limits that name    *)
(* their wait in the retry-after header, in the message only, or nowhere   *)
(***************************************************************************)
RetryOutcomes ==
    {Success(ContentReport, -1), Success(ContentReport, 3),
     RateLimit(TRUE, 30), RateLimit(FALSE, 5), RateLimit(FALSE, 45),
     [RateLimit(FALSE, 0) EXCEPT !.error_str = [leading_words |-> TRUE, duration |-> 5]],
     [RateLimit(FALSE, 0) EXCEPT !.error_str = [leading_words |-> TRUE, duration |-> 45]],
     OtherError}

\* the item every call is made for: a pattern match
RetryItem == [id |-> "t1_a", text |-> SlurText, is_top_level |-> FALSE,
              has_text |-> TRUE]

NextRetry ==
    \/ Escalate(RetryItem, 31, MLHigh)
    \/ SelectModel
    \/ \E o \in RetryOutcomes : Attempt(o)
    \/ Finish([report_raises |-> FALSE, remove_raises |-> FALSE])

\* LLM_DAILY_LIMIT=1: the second call of a day is past the daily limit;
\* LLM_FALLBACK_CHAIN empty, of one model, or the default
InitRetry ==
    \E c \in ArbiterConfigs :
       \E chain \in {<<>>, <<"llama-3.3-70b-versatile">>, c.llm_fallback_chain} :
          InitWith([c EXCEPT !.llm_daily_limit = 1, !.llm_fallback_chain = chain],
                   AllLibs, NoFilterCall)

SpecRetry == InitRetry /\ [][NextRetry]_vars

(***************************************************************************)
(* SpecFilter: one should_analyze call on any text, scores and settings    *)
(***************************************************************************)
PatternCalls == [text : FilterTexts, is_top_level : BOOLEAN, ml : {MLLow, MLHigh},
                 libs : {AllLibs}]

ScoredCalls == [text : ScoredTexts, is_top_level : BOOLEAN, ml : MLOutputs,
                libs : {[AllLibs EXCEPT !.detoxify = d] : d \in BOOLEAN}]

InitFilter ==
    \/ \E config \in {DefaultConfig, WithScorers(DefaultConfig, "all", "all")},
          call \in PatternCalls : InitWith(config, call.libs, call)
    \/ \E config \in FilterConfigs, call \in ScoredCalls :
          InitWith(config, call.libs, call)
    \/ \E config \in FilterConfigs, top \in BOOLEAN, ml \in MLOutputs,
          d \in BOOLEAN :
          InitWith(config, [AllLibs EXCEPT !.detoxify = d],
                   [text |-> SlurText, is_top_level |-> top, ml |-> ml,
                    libs |-> [AllLibs EXCEPT !.detoxify = d]])

ApplyFilter ==
    /\ ~fres.done
    /\ LET r == should_analyze(pf, cfg, fin.text, fin.is_top_level, now, fin.ml)
       IN  /\ fres' = [done |-> TRUE, send |-> r.send, max_score |-> r.max_score,
                       scores |-> r.scores, called |-> r.called,
                       outcome |-> r.outcome]
           /\ pf' = r.pf
    /\ UNCHANGED <<main, modlog, false_positives, tracker, reconciler, utc_offset,
                   cfg, an, now, pc, cur, tracked, benign, reports, removes, items,
                   nreq, calls, last, fin>>

NextFilter == ApplyFilter

SpecFilter == InitFilter /\ [][NextFilter]_vars

(***************************************************************************)
(* SpecConsensus: one auto-remove decision of process_thing (lines         *)
(* 3022-3023) on any score map and any auto-remove configuration           *)
(***************************************************************************)
\* one scorer's partition of a score map: no key, or one key with value v
ScoredBy(key, v) == IF v < 0 THEN EmptyMap ELSE [l \in {key} |-> v]

\* score maps of items sent to the arbiter: by a pattern, or by the ML layer
ConsensusScores ==
    {[NoScores EXCEPT !.detoxify = ScoredBy("toxicity", d),
                      !.openai = ScoredBy("harassment", o),
                      !.perspective = ScoredBy("TOXICITY", p),
                      !.has_trigger_reasons = TRUE,
                      !.reason = r] :
        d \in {-1, 60, 70, 90}, o \in {-1, 60, 70, 90}, p \in {-1, 60, 70, 90},
        r \in {"", "must_escalate:slur"}}

\* AUTO_REMOVE_* as the environment may set them
ConsensusConfigs ==
    {[DefaultConfig EXCEPT !.auto_remove_enabled = e,
                           !.auto_remove_on_pattern_match = f,
                           !.auto_remove_require_models = m,
                           !.auto_remove_min_consensus = q] :
        e \in BOOLEAN, f \in BOOLEAN, q \in {1, 2, 3},
        m \in {<<"openai", "perspective">>, <<"detoxify", "openai", "perspective">>,
               <<"openai", "openai">>, <<>>}}

InitConsensus ==
    \E config \in ConsensusConfigs, scores \in ConsensusScores :
        InitWith(config, AllLibs, [scores |-> scores])

\* is_pattern_match and check_auto_remove_consensus as process_thing calls them
ApplyConsensus ==
    /\ ~fres.done
    /\ fres' = [done |-> TRUE,
                is_pattern_match |-> IsPatternMatch(fin.scores),
                remove |-> check_auto_remove_consensus(fin.scores, cfg,
                                                       IsPatternMatch(fin.scores))]
    /\ UNCHANGED <<main, modlog, false_positives, tracker, reconciler, utc_offset,
                   cfg, pf, an, now, pc, cur, tracked, benign, reports, removes, items,
                   nreq, calls, last, fin>>

NextConsensus == ApplyConsensus

SpecConsensus == InitConsensus /\ [][NextConsensus]_vars

(***************************************************************************)
(* Specification SpecOutcomes: sequences of reports, reconciliation passes *)
(* and cleanups, each run from its load to its save                        *)
(***************************************************************************)
MaxOps == 4

MIN_AGE_HOURS == 24
CLEANUP_MAX_AGE_DAYS == 7

MainVars == <<cfg, pf, an, pc, cur, benign, reports, removes, nreq, calls, last, fin, fres,
              main, modlog>>

\* what the platform answers in one pass: the same for every comment, or a
\* readable comment next to one that is gone or whose fetch fails
Fetches ==
    {[i \in Ids |-> r] : r \in FetchOutcomes}
      \cup {[i \in Ids |-> IF i = "t1_a" THEN "readable" ELSE r] : r \in {"not_found", "error"}}

\* the process may run in any time zone: here UTC, UTC+2 and UTC-5
InitOutcomes == \E offset \in {0, 2 * HourSeconds, 0 - 5 * HourSeconds} : InitIn(DefaultConfig, AllLibs, NoFilterCall, offset, <<>>)

\* a writer has opened reported_comments.json with "w" and not finished its dump
Truncated ==
    \/ tracker.pc = "saving"
    \/ reconciler.pc \in {"saving", "cleanup_saving"}

\* the file never parses and every load starts fresh
load_tracked_comments_fresh == <<>>

\* load_tracked_comments: a file read while it is truncated does not parse
load_tracked_comments == IF Truncated THEN <<>> ELSE tracked

\* process_thing has filed a report on comment_id and records it
Report(comment_id) ==
    /\ Len(tracked) < MaxItems
    /\ tracked' = track_reported_comment(load_tracked_comments, comment_id, 50,
                                         FALSE, now)
    /\ UNCHANGED <<MainVars, items, now, false_positives, tracker, reconciler, utc_offset>>

\* d seconds pass between two operations
Elapse(d) ==
    /\ reconciler.runs + reconciler.sleeps < MaxOps
    /\ now' = now + d
    /\ reconciler' = [reconciler EXCEPT !.sleeps = @ + 1]
    /\ UNCHANGED <<MainVars, items, tracked, false_positives, tracker, utc_offset>>

\* the locals of the accuracy thread after a pass st over the file content
AfterPass(op, st) ==
    [reconciler EXCEPT !.op = op, !.loaded = tracked, !.comments = st.comments,
                       !.stats = st.stats, !.queried = st.queried,
                       !.new_false_positives = st.new_false_positives,
                       !.started_at = now, !.runs = @ + 1,
                       !.removed = Len(tracked) - Len(st.comments)]

RunCheckReportedOutcomes(fetch) ==
    /\ reconciler.runs + reconciler.sleeps < MaxOps
    /\ LET st == check_reported_outcomes(tracked, false_positives, now, utc_offset,
                                         MIN_AGE_HOURS, fetch)
       IN  /\ tracked' = st.comments
           /\ false_positives' = st.false_positives
           /\ reconciler' = AfterPass("check_reported_outcomes", st)
    /\ UNCHANGED <<MainVars, items, now, tracker, utc_offset>>

RunCheckAndTrackFalsePositives(fetch) ==
    /\ reconciler.runs + reconciler.sleeps < MaxOps
    /\ LET st == check_and_track_false_positives(tracked, false_positives, now,
                                                 utc_offset, fetch)
       IN  /\ tracked' = st.comments
           /\ false_positives' = st.false_positives
           /\ reconciler' = AfterPass("check_and_track_false_positives", st)
    /\ UNCHANGED <<MainVars, items, now, tracker, utc_offset>>

RunCleanupOldTracked ==
    /\ reconciler.runs + reconciler.sleeps < MaxOps
    /\ LET st == [PassLocals(cleanup_old_tracked(tracked, now, utc_offset,
                                                 CLEANUP_MAX_AGE_DAYS),
                             false_positives) EXCEPT !.stats = NoStats]
       IN  /\ tracked' = st.comments
           /\ reconciler' = AfterPass("cleanup_old_tracked", st)
    /\ UNCHANGED <<MainVars, items, now, false_positives, tracker, utc_offset>>

NextOutcomes ==
    \/ \E comment_id \in Ids : Report(comment_id)
    \/ \E d \in {HourSeconds, 23 * HourSeconds, 7 * DaySeconds - HourSeconds} : Elapse(d)
    \/ \E fetch \in Fetches : RunCheckReportedOutcomes(fetch)
    \/ \E fetch \in Fetches : RunCheckAndTrackFalsePositives(fetch)
    \/ RunCleanupOldTracked

SpecOutcomes == InitOutcomes /\ [][NextOutcomes]_vars

(***************************************************************************)
(* Specification SpecThreads: the main thread recording reports while the  *)
(* accuracy thread runs accuracy_check_loop; no lock guards the file, so   *)
(* the steps of the two threads interleave between every load and save     *)
(***************************************************************************)
MaxCycles == 2

CHECK_INTERVAL_HOURS == 12

InitThreads == InitWith(DefaultConfig, AllLibs, NoFilterCall)

\* track_reported_comment up to its save: load, duplicate test, append
TrackLoad(comment_id) ==
    /\ tracker.pc = "idle"
    /\ items < MaxItems
    /\ items' = items + 1
    /\ LET comments == load_tracked_comments
           appended == track_reported_comment(comments, comment_id, 50, FALSE, now)
       IN  tracker' = IF appended = comments THEN TrackerIdle
                      ELSE [pc |-> "loaded", comments |-> appended,
                            comment_id |-> comment_id]
    /\ UNCHANGED <<MainVars, now, tracked, false_positives, reconciler, utc_offset>>

\* save_tracked_comments of the main thread: open(..., "w")
TrackTruncate ==
    /\ tracker.pc = "loaded"
    /\ tracker' = [tracker EXCEPT !.pc = "saving"]
    /\ UNCHANGED <<MainVars, items, now, tracked, false_positives, reconciler, utc_offset>>

\* save_tracked_comments of the main thread: json.dump done
TrackWrite ==
    /\ tracker.pc = "saving"
    /\ tracked' = tracker.comments
    /\ tracker' = TrackerIdle
    /\ UNCHANGED <<MainVars, items, now, false_positives, reconciler, utc_offset>>

\* accuracy_check_loop: time.sleep(check_interval_sec) begins
ThreadSleep ==
    /\ reconciler.pc \in {"start", "done"}
    /\ reconciler.sleeps < MaxCycles
    /\ reconciler' = [reconciler EXCEPT !.pc = "sleep", !.sleeps = @ + 1,
                          !.wake_at = now + CHECK_INTERVAL_HOURS * HourSeconds]
    /\ UNCHANGED <<MainVars, items, now, tracked, false_positives, tracker, utc_offset>>

\* accuracy_check_loop: time.sleep returns.  The interval is hours long and a
\* track_reported_comment call is not: none is under way across the wait.
ThreadWake ==
    /\ reconciler.pc = "sleep"
    /\ tracker.pc = "idle"
    /\ now' = Max2(now, reconciler.wake_at)
    /\ reconciler' = [reconciler EXCEPT !.pc = "run"]
    /\ UNCHANGED <<MainVars, items, tracked, false_positives, tracker, utc_offset>>

\* check_and_track_false_positives up to its save
ReconcileLoad(fetch) ==
    /\ reconciler.pc = "run"
    /\ LET comments == load_tracked_comments
           st == check_and_track_false_positives(comments, false_positives, now,
                                                 utc_offset, fetch)
       IN  /\ false_positives' = st.false_positives
           /\ reconciler' =
                  [reconciler EXCEPT !.pc = "loaded",
                      !.op = "check_and_track_false_positives",
                      !.loaded = comments, !.comments = st.comments,
                      !.stats = st.stats, !.queried = st.queried,
                      !.new_false_positives = st.new_false_positives,
                      !.started_at = now, !.runs = @ + 1, !.removed = 0]
    /\ UNCHANGED <<MainVars, items, now, tracked, tracker, utc_offset>>

ReconcileTruncate ==
    /\ reconciler.pc = "loaded"
    /\ reconciler' = [reconciler EXCEPT !.pc = "saving"]
    /\ UNCHANGED <<MainVars, items, now, tracked, false_positives, tracker, utc_offset>>

ReconcileWrite ==
    /\ reconciler.pc = "saving"
    /\ tracked' = reconciler.comments
    /\ reconciler' = [reconciler EXCEPT !.pc = "cleanup"]
    /\ UNCHANGED <<MainVars, items, now, false_positives, tracker, utc_offset>>

\* cleanup_old_tracked(max_age_days=7) up to its save
CleanupLoad ==
    /\ reconciler.pc = "cleanup"
    /\ LET comments == load_tracked_comments
           filtered == cleanup_old_tracked(comments, now, utc_offset,
                                           CLEANUP_MAX_AGE_DAYS)
       IN  reconciler' =
               [reconciler EXCEPT !.pc = "cleanup_loaded",
                   !.op = "cleanup_old_tracked",
                   !.loaded = comments, !.comments = filtered,
                   !.stats = NoStats, !.queried = <<>>,
                   !.new_false_positives = <<>>, !.started_at = now,
                   !.removed = Len(comments) - Len(filtered)]
    /\ UNCHANGED <<MainVars, items, now, tracked, false_positives, tracker, utc_offset>>

CleanupTruncate ==
    /\ reconciler.pc = "cleanup_loaded"
    /\ reconciler' = [reconciler EXCEPT !.pc = "cleanup_saving"]
    /\ UNCHANGED <<MainVars, items, now, tracked, false_positives, tracker, utc_offset>>

CleanupWrite ==
    /\ reconciler.pc = "cleanup_saving"
    /\ tracked' = reconciler.comments
    /\ reconciler' = [reconciler EXCEPT !.pc = "done"]
    /\ UNCHANGED <<MainVars, items, now, false_positives, tracker, utc_offset>>

NextThreads ==
    \/ \E comment_id \in Ids : TrackLoad(comment_id)
    \/ TrackTruncate
    \/ TrackWrite
    \/ ThreadSleep
    \/ ThreadWake
    \/ \E fetch \in Fetches : ReconcileLoad(fetch)
    \/ ReconcileTruncate
    \/ ReconcileWrite
    \/ CleanupLoad
    \/ CleanupTruncate
    \/ CleanupWrite

SpecThreads == InitThreads /\ [][NextThreads]_vars

(***************************************************************************)
(* Specification SpecLimiter: check_toxicity calls on the two external     *)
(* scorer clients, some seconds apart, against backends that answer or fail *)
(***************************************************************************)
MaxCalls == 4

\* both scorers on, two requests a minute for OpenAI and one for Perspective
InitLimiter ==
    InitWith([WithScorers(DefaultConfig, "all", "all") EXCEPT
                  !.openai_moderation_rpm = 2, !.perspective_rpm = 1],
             AllLibs, NoFilterCall)

\* check_toxicity on the client named which, delay seconds after the last call
CallScorer(which, delay, backend) ==
    /\ nreq < MaxCalls
    /\ nreq' = nreq + 1
    /\ now' = now + delay
    /\ LET r == check_toxicity(pf[which],
                               IF which = "openai" THEN OPENAI_DEFAULT_THRESHOLDS
                               ELSE PERSPECTIVE_DEFAULT_THRESHOLDS,
                               now', backend)
       IN  /\ pf' = [pf EXCEPT ![which] = r.client]
           /\ calls' = IF r.contacted THEN Append(calls, [which |-> which, at |-> now'])
                       ELSE calls
           /\ fres' = [done |-> TRUE, which |-> which, at |-> now',
                       contacted |-> r.contacted, is_flagged |-> r.is_flagged,
                       max_score |-> r.max_score, scores |-> r.scores]
    /\ UNCHANGED <<main, modlog, false_positives, tracker, reconciler, utc_offset, cfg, an, pc, cur,
                   tracked, benign, reports, removes, items, last, fin>>

NextLimiter ==
    \E which \in {"openai", "perspective"}, delay \in {0, 20, 40} :
        \/ CallScorer(which, delay, MLHigh[which])
        \/ CallScorer(which, delay, Raises)

SpecLimiter == InitLimiter /\ [][NextLimiter]_vars

(***************************************************************************)
(* SpecMain: exceptions in process_thing, in the stream and in main()      *)
(***************************************************************************)
MaxErrors == 2   \* exceptions raised in one run of main()

\* main() with no handler for plain exceptions
main_handler_no_generic(exc, client_ok) ==
    CASE exc = "ResponseException" ->
            [stop |-> FALSE, slept |-> IF client_ok THEN 10 ELSE 30]
      [] exc = "RequestException" -> [stop |-> FALSE, slept |-> 10]
      [] OTHER -> [stop |-> TRUE, slept |-> 0]

\* main(), the except clauses of its loop (lines 3256-3281) for an exception
\* that left stream_subreddit; client_ok: praw_client(cfg) returns a client.
\* [stop (the loop is left), slept (seconds before the stream is opened again)]
main_handler(exc, client_ok) ==
    CASE exc = "ResponseException" ->
            [stop |-> FALSE, slept |-> IF client_ok THEN 10 ELSE 30]
      [] exc = "RequestException" -> [stop |-> FALSE, slept |-> 10]
      [] exc = "KeyboardInterrupt" -> [stop |-> TRUE, slept |-> 0]
      [] OTHER -> [stop |-> FALSE, slept |-> IF client_ok THEN 5 ELSE 25]

\* process_thing raises exc on the item in hand, before the pre-filter or
\* after analyze() returned: stream_subreddit (lines 3083-3087) catches every
\* Exception and goes on with the stream; anything else reaches main()
ProcessRaises(exc) ==
    /\ pc \in {"idle", "finish"}
    /\ items < MaxItems
    /\ Len(main.caught) < MaxErrors
    /\ LET h == main_handler(exc, TRUE)
           escapes == exc = "KeyboardInterrupt"
       IN  /\ main' = [running |-> ~(escapes /\ h.stop),
                       caught |-> Append(main.caught,
                                         [where |-> "item", exc |-> exc,
                                          items |-> items + 1])]
           /\ pc' = IF escapes /\ h.stop THEN "stopped" ELSE "idle"
           /\ now' = IF escapes THEN now + h.slept ELSE now
    /\ cur' = CurIdle
    /\ calls' = <<>>
    /\ items' = items + 1
    /\ UNCHANGED <<modlog, false_positives, tracker, reconciler, utc_offset,
                   cfg, pf, an, tracked, benign, reports, removes, nreq, last,
                   fin, fres>>

\* the stream itself raises exc while main() waits for the next item: the
\* exception leaves stream_subreddit and main() handles it (lines 3256-3281)
StreamRaises(exc, client_ok) ==
    /\ pc = "idle"
    /\ Len(main.caught) < MaxErrors
    /\ LET h == main_handler(exc, client_ok)
       IN  /\ main' = [running |-> ~h.stop,
                       caught |-> Append(main.caught,
                                         [where |-> "stream", exc |-> exc,
                                          items |-> items])]
           /\ pc' = IF h.stop THEN "stopped" ELSE "idle"
           /\ now' = now + h.slept
    /\ UNCHANGED <<modlog, false_positives, tracker, reconciler, utc_offset,
                   cfg, pf, an, cur, calls, items, tracked, benign, reports,
                   removes, nreq, last, fin, fres>>

NextMain ==
    \/ Escalate(RetryItem, 31, MLHigh)
    \/ SelectModel
    \/ \E o \in {Success(ContentReport, -1), OtherError} : Attempt(o)
    \/ Finish([report_raises |-> FALSE, remove_raises |-> FALSE])
    \/ \E exc \in {"Exception", "KeyboardInterrupt"} : ProcessRaises(exc)
    \/ \E exc \in {"ResponseException", "RequestException", "Exception",
                   "KeyboardInterrupt"}, client_ok \in BOOLEAN :
          StreamRaises(exc, client_ok)

SpecMain == InitArbiter /\ [][NextMain]_vars

(***************************************************************************)
(* SpecModlog: refresh_modlog and the outcomes file (modlog_refresh.py)    *)
(* created_utc values are counted in tenths of a second.                   *)
(***************************************************************************)
MaxRuns == 2   \* refresh_modlog calls

\* _classify_status: "" stands for None
classify_status(action) ==
    IF action \in {"approvecomment", "approvelink"} THEN "approved"
    ELSE IF action \in {"removecomment", "removelink", "spamcomment", "spamlink",
                        "moderator_remove", "remove"}
         THEN "removed" ELSE ""

\* _normalize_fullname: the stripped fullname if it starts with t1_ or t3_,
\* else << >> (None).  f: [padded (blanks around it), kind, id], kind "" for
\* a bare id and id "" for a missing fullname
normalize_fullname(f) ==
    IF f.id = "" THEN <<>>
    ELSE IF f.kind \in {"t1_", "t3_"} THEN <<f.kind, f.id>> ELSE <<>>

\* int(d.get("created_utc", 0)) on a JSON value: a number is truncated to
\* whole seconds, a missing field counts 0; -1 stands for the ValueError or
\* TypeError raised on a string that is no number or on null
int_created_utc(v) ==
    IF v.kind = "number" THEN v.value \div 10
    ELSE IF v.kind = "missing" THEN 0 ELSE -1

\* _read_seen_keys with the timestamp of a key left as stored, not truncated
read_seen_keys_untruncated(file) ==
    LET raises(l) == \/ l.json = "other"
                     \/ l.json = "object" /\ int_created_utc(l.created_utc) < 0
        status(l) == IF l.status # "" THEN l.status ELSE l.outcome
    IN  [raised |-> \E i \in DOMAIN file : raises(file[i]),
         seen |-> {<<file[i].target_fullname, status(file[i]),
                     file[i].created_utc.value>> :
                      i \in {k \in DOMAIN file :
                               /\ file[k].json = "object"
                               /\ file[k].target_fullname # <<>>
                               /\ status(file[k]) \in {"approved", "removed"}
                               /\ int_created_utc(file[k].created_utc) > 0}}]

\* _read_seen_keys: [raised, seen].  A line is blank, no JSON ("invalid"), a
\* JSON object, or JSON of another type ("other": d.get raises AttributeError
\* outside the try block of lines 54-57)
read_seen_keys(file) ==
    LET raises(l) == \/ l.json = "other"
                     \/ l.json = "object" /\ int_created_utc(l.created_utc) < 0
        status(l) == IF l.status # "" THEN l.status ELSE l.outcome
    IN  [raised |-> \E i \in DOMAIN file : raises(file[i]),
         seen |-> {<<file[i].target_fullname, status(file[i]),
                     int_created_utc(file[i].created_utc)>> :
                      i \in {k \in DOMAIN file :
                               /\ file[k].json = "object"
                               /\ file[k].target_fullname # <<>>
                               /\ status(file[k]) \in {"approved", "removed"}
                               /\ int_created_utc(file[k].created_utc) > 0}}]

\* _save_outcome: [file, seen, wrote]
save_outcome(file, record, seen) ==
    LET key == <<record.target_fullname, record.status,
                 int_created_utc(record.created_utc)>>
    IN  IF key \in seen
        THEN [file |-> file, seen |-> seen, wrote |-> FALSE]
        ELSE [file |-> Append(file, record), seen |-> seen \cup {key},
              wrote |-> TRUE]

\* refresh_modlog, the loop over the subreddits and over the actions of one
\* (lines 101-150), from action i of subreddit n on.  env: [subs, logs, faults,
\* cutoff, limit]; faults[name] = [at, exc]: the moderation log of name raises
\* exc when its action number at is fetched (at = 0: it does not raise)
RECURSIVE scan_subs(_, _, _, _)
scan_subs(st, n, i, env) ==
    IF n > Len(env.subs) THEN st
    ELSE
      LET name == env.subs[n]
          log == env.logs[name]
          next_sub(s, error) ==
              scan_subs([s EXCEPT !.scans = Append(@, [sub |-> name, error |-> error]),
                                  !.slept = IF error = "ServerError" THEN @ + 25 ELSE @,
                                  !.fetched = 0],
                        n + 1, 1, env)
      IN  IF env.faults[name].at = i THEN next_sub(st, env.faults[name].exc)
          ELSE IF i > Len(log) \/ st.fetched >= env.limit THEN next_sub(st, "")
          ELSE
            LET action == log[i]
                s1 == [st EXCEPT !.fetched = @ + 1, !.scanned = @ + 1]
                status == classify_status(action.action)
                fname == normalize_fullname(action.target_fullname)
                w == save_outcome(s1.file,
                                  [json |-> "object", target_fullname |-> fname,
                                   status |-> status, outcome |-> "",
                                   raw_action |-> action.action,
                                   created_utc |-> [kind |-> "number",
                                                    value |-> action.created_utc],
                                   subreddit |-> name],
                                  s1.seen)
            IN  IF action.created_utc < env.cutoff * 10 THEN next_sub(s1, "")
                ELSE IF status = "" \/ fname = <<>> THEN scan_subs(s1, n, i + 1, env)
                ELSE scan_subs([s1 EXCEPT !.file = w.file, !.seen = w.seen,
                                          !.written = IF w.wrote THEN @ + 1 ELSE @],
                               n, i + 1, env)

\* refresh_modlog called at time t: the state of modlog afterwards, raised
\* when the call ended in an exception
refresh_modlog(file, subs, logs, faults, lookback_days, limit, t) ==
    LET r == read_seen_keys(file)
        st == scan_subs([file |-> file, seen |-> r.seen, written |-> 0,
                         scanned |-> 0, fetched |-> 0, scans |-> <<>>, slept |-> 0],
                        1, 1,
                        [subs |-> subs, logs |-> logs, faults |-> faults,
                         cutoff |-> t - lookback_days * DaySeconds, limit |-> limit])
    IN  IF r.raised
        THEN [NoRefresh(file) EXCEPT !.raised = TRUE]
        ELSE [file |-> st.file, runs |-> 0, raised |-> FALSE, seen |-> st.seen,
              written |-> st.written, scanned |-> st.scanned, scans |-> st.scans,
              slept |-> st.slept]

Fullname(kind, id) == [padded |-> FALSE, kind |-> kind, id |-> id]

\* sub.mod.log() of two subreddits, newest action first
ModLog ==
    [sub_a |-> <<[action |-> "removecomment", created_utc |-> 1000005,
                  target_fullname |-> Fullname("t1_", "a")],
                 [action |-> "distinguish", created_utc |-> 1000001,
                  target_fullname |-> Fullname("t1_", "a")],
                 [action |-> "approvecomment", created_utc |-> 999990,
                  target_fullname |-> [Fullname("t1_", "b") EXCEPT !.padded = TRUE]],
                 [action |-> "removelink", created_utc |-> 400000,
                  target_fullname |-> Fullname("t3_", "c")],
                 [action |-> "approvelink", created_utc |-> 399000,
                  target_fullname |-> Fullname("t3_", "d")]>>,
     sub_b |-> <<[action |-> "removecomment", created_utc |-> 1000009,
                  target_fullname |-> Fullname("t1_", "a")],
                 [action |-> "approvecomment", created_utc |-> 1000007,
                  target_fullname |-> Fullname("t1_", "a")],
                 [action |-> "spamlink", created_utc |-> 1000002,
                  target_fullname |-> Fullname("", "c")],
                 [action |-> "removelink", created_utc |-> 999000,
                  target_fullname |-> Fullname("", "")]>>]

\* a line of the outcomes file
Line(json, fname, status, outcome, created_utc) ==
    [json |-> json, target_fullname |-> fname, status |-> status,
     outcome |-> outcome, raw_action |-> "", created_utc |-> created_utc,
     subreddit |-> "sub_a"]

\* the outcomes file found on disk: none, one an earlier run wrote, or one
\* with a line that is blank, cut short, of a legacy layout, no JSON object,
\* or an object whose created_utc is no number
FilesAtStart ==
    {<<>>,
     <<Line("object", <<"t1_", "a">>, "removed", "",
            [kind |-> "number", value |-> 1000005])>>,
     <<Line("blank", <<>>, "", "", [kind |-> "missing", value |-> 0]),
       Line("invalid", <<>>, "", "", [kind |-> "missing", value |-> 0])>>,
     <<Line("object", <<"t1_", "b">>, "", "approved",
            [kind |-> "number", value |-> 999990]),
       Line("object", <<"t1_", "a">>, "removed", "",
            [kind |-> "missing", value |-> 0])>>,
     <<Line("other", <<>>, "", "", [kind |-> "missing", value |-> 0])>>,
     <<Line("object", <<"t1_", "a">>, "removed", "",
            [kind |-> "string", value |-> 0])>>}

\* what the platform does to the scan of one subreddit
ScanFaults ==
    {[at |-> 0, exc |-> ""], [at |-> 1, exc |-> "ServerError"],
     [at |-> 3, exc |-> "ServerError"], [at |-> 2, exc |-> "ResponseException"],
     [at |-> 4, exc |-> "Exception"]}

InitModlog ==
    \E file \in FilesAtStart : InitIn(DefaultConfig, AllLibs, NoFilterCall, 0, file)

\* one run of the periodic runner or of the command line (lines 176-191,
\* 211-230): interval_hours after the last one, refresh_modlog over both
\* subreddits with a lookback of one day
RefreshModlog(faults) ==
    /\ modlog.runs < MaxRuns
    /\ LET t == now + 12 * HourSeconds
       IN  /\ now' = t
           /\ modlog' = [refresh_modlog(modlog.file, <<"sub_a", "sub_b">>, ModLog,
                                        faults, 1, 100000, t)
                           EXCEPT !.runs = modlog.runs + 1]
    /\ UNCHANGED <<main, false_positives, tracker, reconciler, utc_offset,
                   cfg, pf, an, pc, cur, calls, items, tracked, benign, reports,
                   removes, nreq, last, fin, fres>>

NextModlog == \E faults \in [DOMAIN ModLog -> ScanFaults] : RefreshModlog(faults)

SpecModlog == InitModlog /\ [][NextModlog]_vars

(***************************************************************************)
(* Properties                                                              *)
(***************************************************************************)
RecordsOf(id) == {k \in DOMAIN tracked : tracked[k].comment_id = id}

\* C1: across any sequence of process_thing invocations, report() is called
\* at most once for an item id and at most one ReportedRecord exists for it.
C1_ReportedAtMostOnce ==
    \A id \in Ids : reports[id] <= 1 /\ Cardinality(RecordsOf(id)) <= 1

\* C2: when no model of the chain answers (each failed, was skipped or ran out
\* of retries) analyze() does not raise and returns BENIGN with the
\* LLM-unavailable reason, whatever the pre-filter score; a REPORT verdict
\* always comes from a successful model response.
C2_UnavailableIsBenign ==
    /\ (last.analyzed /\ ~last.success) =>
          (~last.raised /\ last.verdict = "BENIGN" /\ last.unavailable)
    /\ (last.analyzed /\ last.verdict = "REPORT") => last.success

\* every model failed or was skipped on cooldown, at pre-filter score 1.0
C2_Witness ==
    /\ last.analyzed /\ ~last.success /\ last.detox_score = 100
    /\ last.skipped # {} /\ last.requests > 0
    /\ last.verdict = "BENIGN" /\ last.unavailable

PassOutcomesSent == {"MUST_ESCALATE", "SEND_TO_LLM"}

\* C3: report() is invoked on an item only in a pass in which should_analyze
\* sent the item to the arbiter and analyze() returned the verdict REPORT; a
\* pattern match or an ML score without that verdict never files a report.
C3_ReportNeedsVerdict ==
    [][\A id \in Ids :
          reports'[id] > reports[id] =>
             /\ pc = "finish" /\ cur.item.id = id
             /\ cur.outcome \in PassOutcomesSent
             /\ last'.id = id /\ last'.send /\ last'.analyzed
             /\ last'.verdict = "REPORT" /\ last'.success]_vars

\* a report was filed in the last pass, on the arbiter's verdict
C3_Witness ==
    /\ last.report_called /\ reports[last.id] > 0
    /\ last.verdict = "REPORT" /\ last.outcome \in PassOutcomesSent

\* C4: remove() is called on an item only after report() on the same item
\* returned without raising, in the same pass; when report() raises, remove()
\* is not called.
C4_RemoveAfterReport ==
    [][\A id \in Ids :
          removes'[id] > removes[id] =>
             /\ reports'[id] = reports[id] + 1
             /\ last'.id = id /\ last'.report_called /\ ~last'.report_raised]_vars

\* one item was reported and removed, another reported and not removed
C4_Witness ==
    /\ last.report_called /\ ~last.report_raised
    /\ \E i \in Ids, j \in Ids :
          /\ removes[i] > 0 /\ reports[i] > 0
          /\ reports[j] > 0 /\ removes[j] = 0

\* C5: in dry-run mode no pass ever calls report() or remove(); the decisions
\* are still computed.
C5_DryRunNoCalls ==
    cfg.dry_run =>
        /\ \A id \in Ids : reports[id] = 0 /\ removes[id] = 0
        /\ ~last.report_called /\ ~last.remove_called
        /\ (last.analyzed /\ last.verdict = "REPORT") => last.would_report

\* a dry-run pass that would have reported and removed the item
C5_Witness ==
    /\ cfg.dry_run /\ last.analyzed /\ last.would_report /\ last.would_remove
    /\ reports[last.id] = 0 /\ removes[last.id] = 0

\* the tags of the escalation rules that match a text under their gates
\* (section "Layer 1" of should_analyze, read rule by rule)
FiringTags(text, is_top_level) ==
    {EarlyTag(rule) : rule \in text.early}
    \cup (IF text.strong /\ text.shill THEN {"must_escalate:shill_accusation"} ELSE {})
    \cup (IF text.dismissive = "hard" /\ text.strong
          THEN {"must_escalate:dismissive_hard+directed"} ELSE {})
    \cup (IF text.dismissive = "hard" /\ ~text.strong /\ ~is_top_level
          THEN {"must_escalate:dismissive_hard+reply"} ELSE {})
    \cup (IF text.dismissive = "soft" /\ text.strong
          THEN {"must_escalate:dismissive_soft+directed"} ELSE {})
    \cup (IF text.insult /\ text.strong THEN {"must_escalate:insult+directed"} ELSE {})
    \cup (IF text.insult /\ ~text.strong /\ ~is_top_level
          THEN {"must_escalate:insult+reply"} ELSE {})

InsultTags == {"must_escalate:insult+directed", "must_escalate:insult+reply"}

\* C6: whenever an escalation rule matches under its gate, should_analyze
\* returns send = True with score exactly 1.0 and the tag of a firing rule as
\* _trigger_reasons, whatever the benign rule and the ML scorers say; the
\* benign skip is taken only when no escalation rule fired.
C6_EscalationWins ==
    fres.done =>
       /\ FiringTags(fin.text, fin.is_top_level) # {} =>
             /\ fres.send /\ fres.max_score = 100
             /\ fres.outcome = "MUST_ESCALATE"
             /\ fres.scores.has_trigger_reasons
             /\ fres.scores.reason \in FiringTags(fin.text, fin.is_top_level)
       /\ fres.outcome = "BENIGN_SKIP" => FiringTags(fin.text, fin.is_top_level) = {}

\* a rule fired on a text that is also a benign exclamation with low ML scores
C6_Witness ==
    /\ fres.done /\ fres.send /\ fres.max_score = 100
    /\ FiringTags(fin.text, fin.is_top_level) # {}
    /\ fin.text.benign_phrase /\ ~fin.text.strong /\ fin.ml = MLLow

\* C7: a text with a direct-insult phrase on which no earlier rule fires: not
\* strongly directed and top-level, the insult rule does not fire; not strongly
\* directed and a reply, it fires; strongly directed, it fires in both cases.
C7_InsultGate ==
    (/\ fres.done /\ fin.text.insult
     /\ FiringTags(fin.text, fin.is_top_level) \ InsultTags = {}) =>
       /\ (~fin.text.strong /\ fin.is_top_level) =>
             (fres.outcome # "MUST_ESCALATE" /\ fres.scores.reason = "")
       /\ (~fin.text.strong /\ ~fin.is_top_level) =>
             (fres.send /\ fres.scores.reason = "must_escalate:insult+reply")
       /\ fin.text.strong =>
             (fres.send /\ fres.scores.reason = "must_escalate:insult+directed")

\* a top-level, not directed insult that no rule escalated
C7_Witness ==
    /\ fres.done /\ fin.text.insult /\ ~fin.text.strong /\ fin.is_top_level
    /\ FiringTags(fin.text, fin.is_top_level) = {}
    /\ fres.outcome # "MUST_ESCALATE"

\* C8: when no escalation rule fires on a benign exclamation that is not
\* strongly directed, should_analyze returns send = False with score 0.0, no
\* ML scorer is called and the arbiter is not called for the item; a strongly
\* directed text never takes the benign-skip branch.
C8_BenignSkip ==
    /\ (/\ last.id # "" /\ last.outcome # "NO_TEXT"
        /\ last.text.benign_phrase /\ ~last.text.strong
        /\ FiringTags(last.text, FALSE) = {}) =>
          /\ ~last.send /\ last.outcome = "BENIGN_SKIP"
          /\ last.detox_score = 0 /\ last.called = {}
          /\ ~last.analyzed /\ last.requests = 0
    /\ last.text.strong => last.outcome # "BENIGN_SKIP"
    /\ pc # "idle" =>
          ~(/\ cur.item.text.benign_phrase /\ ~cur.item.text.strong
            /\ FiringTags(cur.item.text, cur.item.is_top_level) = {})

\* a benign exclamation was skipped, after the arbiter had been used
C8_Witness ==
    /\ last.outcome = "BENIGN_SKIP" /\ last.text.benign_phrase
    /\ ~last.send /\ last.called = {} /\ nreq > 0

\* C9: for a fixed text, context and scorer outputs, a call that returned
\* send = False returns send = False as well under every configuration that
\* differs by one raised threshold.
C9_ThresholdMonotone ==
    (fres.done /\ ~fres.send) =>
       \A f \in {"threshold_threat", "threshold_severe_toxicity",
                 "threshold_identity_attack", "threshold_insult_directed",
                 "threshold_insult_not_directed", "threshold_toxicity_directed",
                 "threshold_toxicity_not_directed", "threshold_obscene",
                 "openai_moderation_threshold", "perspective_threshold"},
          d \in {10, 40} :
          LET raised == [cfg EXCEPT ![f] = @ + d]
          IN  ~should_analyze(NewPreFilter(raised, fin.libs), raised, fin.text,
                              fin.is_top_level, now, fin.ml).send

\* a call skipped with a Detoxify score just under its threshold while an
\* external scorer in confirm mode would have flagged the text
C9_Witness ==
    /\ fres.done /\ ~fres.send /\ fres.outcome = "SKIP"
    /\ cfg.openai_moderation_enabled /\ cfg.openai_moderation_mode = "confirm"
    /\ "detoxify" \in fres.called /\ "openai" \notin fres.called
    /\ fin.ml.detoxify = Predict(DetoxScores("toxicity", 45))
    /\ fin.ml.openai = MLHigh.openai

\* the requests of the running analyze() call sent to one model
CallsTo(model) == {i \in 1..Len(calls) : calls[i].model = model}

\* the primary was called in this analyze() call and rate-limited every time
PrimaryAlwaysLimited ==
    /\ CallsTo(an.primary_model) # {}
    /\ \A i \in CallsTo(an.primary_model) : calls[i].kind = "rate_limit"

\* analyze() is about to return a fallback's answer after the primary was
\* rate-limited on every attempt
FallbackAnswered ==
    /\ pc = "finish" /\ cur.success /\ cur.model # an.primary_model
    /\ PrimaryAlwaysLimited

PositionIn(chain, model) == CHOOSE i \in 1..Len(chain) : chain[i] = model

PassingScorers(scores, config) ==
    {m \in Range(config.auto_remove_require_models) :
        \/ m = "detoxify" /\ \E l \in DOMAIN scores.detoxify :
                               scores.detoxify[l] >= config.auto_remove_detoxify_min
        \/ m = "openai" /\ \E l \in DOMAIN scores.openai :
                               scores.openai[l] >= config.auto_remove_openai_min
        \/ m = "perspective" /\ \E l \in DOMAIN scores.perspective :
                               scores.perspective[l] >= config.auto_remove_perspective_min}

\* C11: with auto-remove enabled and the item not a pattern match,
\* check_auto_remove_consensus returns remove = True if and only if the number
\* of configured scorers that reach their minimum is at least the quorum.
C11_QuorumIff ==
    (fres.done /\ cfg.auto_remove_enabled /\ ~fres.is_pattern_match) =>
       (fres.remove <=>
           Cardinality(PassingScorers(fin.scores, cfg)) >= cfg.auto_remove_min_consensus)

\* C12: a pattern match is removed at once when the pattern-removal flag is
\* set; when it is not set, the decision is the scorer quorum's, exactly as
\* for an item that is not a pattern match.
C12_PatternThenQuorum ==
    (fres.done /\ cfg.auto_remove_enabled /\ fres.is_pattern_match) =>
       IF cfg.auto_remove_on_pattern_match
       THEN fres.remove
       ELSE fres.remove = check_auto_remove_consensus(fin.scores, cfg, FALSE)

ReconcileOps == {"check_reported_outcomes", "check_and_track_false_positives"}

Resolved(entry) == entry.outcome \in {"removed", "approved"}

Pending(entry) == entry.outcome = "pending"

\* positions of the resolved, the pending and the approved entries of a list
ResolvedAt(comments) == {i \in DOMAIN comments : Resolved(comments[i])}
PendingAt(comments) == {i \in DOMAIN comments : Pending(comments[i])}
ApprovedAt(comments) == {i \in DOMAIN comments : comments[i].outcome = "approved"}

\* the comment ids a pass has queried the platform for
Queried == {reconciler.queried[k] : k \in DOMAIN reconciler.queried}

\* C13: a reconciliation pass (check_reported_outcomes or
\* check_and_track_false_positives) leaves every entry that was already
\* removed or approved unchanged in all fields, makes no platform query for
\* it and counts it in none of the stats (the counters add up to pending
\* entries only); over a store with no pending entry the pass changes
\* nothing, queries nothing and counts nothing.
C13_ResolvedUntouched ==
    reconciler.op \in ReconcileOps =>
        /\ Len(reconciler.comments) = Len(reconciler.loaded)
        /\ \A i \in ResolvedAt(reconciler.loaded) :
               /\ reconciler.comments[i] = reconciler.loaded[i]
               /\ reconciler.loaded[i].comment_id \notin Queried
        /\ reconciler.stats.checked + reconciler.stats.still_pending
             + reconciler.stats.errors
               = Cardinality(PendingAt(reconciler.loaded))
        /\ Len(reconciler.queried) <= Cardinality(PendingAt(reconciler.loaded))
        /\ PendingAt(reconciler.loaded) = {} =>
               /\ reconciler.comments = reconciler.loaded
               /\ reconciler.stats = NoStats
               /\ reconciler.queried = <<>>
               /\ reconciler.new_false_positives = <<>>

\* a pass over a store holding a resolved entry and a pending one it checked
C13_Witness ==
    /\ reconciler.op \in ReconcileOps
    /\ ResolvedAt(reconciler.loaded) # {}
    /\ reconciler.stats.checked > 0
    /\ tracked = reconciler.comments

\* positions of the false-positive entries of a comment id
FalsePositivesOf(id) ==
    {k \in DOMAIN false_positives : false_positives[k].comment_id = id}

\* C16: after any sequence of reconciliation operations, every entry of
\* reported_comments.json whose outcome is approved has exactly one entry of
\* the same id in false_positives.json, and no id is in false_positives.json
\* twice.
C16_ApprovedHasOneFalsePositive ==
    /\ \A i \in ApprovedAt(tracked) :
           Cardinality(FalsePositivesOf(tracked[i].comment_id)) = 1
    /\ \A id \in Ids : Cardinality(FalsePositivesOf(id)) <= 1

\* the instant a stored timestamp denotes
TimeOf(stamp) == stamp[1] * DaySeconds + stamp[2]

\* a pending entry whose age at time t has reached the maturation window
Mature(entry, t) ==
    /\ Pending(entry)
    /\ t - TimeOf(entry.reported_at) >= MATURATION_HOURS * HourSeconds

\* a pending entry whose age at time t is below the maturation window
Immature(entry, t) ==
    /\ Pending(entry)
    /\ t - TimeOf(entry.reported_at) < MATURATION_HOURS * HourSeconds

\* the outcome the three cases of the fetch stand for
ExpectedOutcome(result) ==
    IF result = "readable" THEN "approved" ELSE "removed"

\* C17: a reconciliation pass sets the outcome of every pending entry past
\* the maturation window: removed if the body is the removed placeholder or
\* the comment carries a removed marker, removed if the comment is not
\* found, approved if it is readable and not flagged; and in each of these
\* cases it sets checked_at.
C17_MatureResolved ==
    [][\A fetch \in Fetches :
          (RunCheckReportedOutcomes(fetch) \/ RunCheckAndTrackFalsePositives(fetch))
            => \A i \in DOMAIN tracked :
                  (Mature(tracked[i], now) /\ fetch[tracked[i].comment_id] # "error")
                    => /\ tracked'[i].outcome
                            = ExpectedOutcome(fetch[tracked[i].comment_id])
                       /\ tracked'[i].checked_at # NoTimestamp]_vars

\* C18: a reconciliation pass leaves every pending entry whose age is below
\* the maturation window as it is, counts it as still_pending and makes no
\* platform query for it.
C18_ImmatureUntouched ==
    reconciler.op \in ReconcileOps =>
        LET young == {i \in DOMAIN reconciler.loaded :
                         Immature(reconciler.loaded[i], reconciler.started_at)}
        IN  /\ \A i \in young :
                   /\ reconciler.comments[i] = reconciler.loaded[i]
                   /\ reconciler.loaded[i].comment_id \notin Queried
            /\ reconciler.stats.still_pending >= Cardinality(young)

\* a resolved entry whose resolution is at least max_age_days old at time t
AgedResolved(entry, t, max_age_days) ==
    /\ Resolved(entry)
    /\ entry.checked_at # NoTimestamp
    /\ t - TimeOf(entry.checked_at) >= max_age_days * DaySeconds

\* C19: cleanup_old_tracked removes exactly the entries that are resolved
\* and whose resolution is at least max_age_days old: what it saves is the
\* loaded list without those entries, every pending entry is kept, and the
\* kept entries are unchanged and in their order.
C19_CleanupExact ==
    reconciler.op = "cleanup_old_tracked" =>
        reconciler.comments =
            SelectSeq(reconciler.loaded,
                      LAMBDA entry : ~AgedResolved(entry, reconciler.started_at,
                                                   CLEANUP_MAX_AGE_DAYS))

\* positions of the stored entries of a comment id in a list
EntriesOf(comments, id) == {k \in DOMAIN comments : comments[k].comment_id = id}

\* C14: under every interleaving of the main thread's track_reported_comment
\* with the accuracy thread's pass and cleanup, an entry whose stored outcome
\* is removed or approved is not stored as pending afterwards.
C14_NoReversion ==
    [][\A id \in Ids :
          (\E i \in EntriesOf(tracked, id) : Resolved(tracked[i]))
            => ~(\E j \in EntriesOf(tracked', id) : Pending(tracked'[j]))]_vars

\* C15: under every interleaving of the main thread's append with a
\* whole-store rewrite of the accuracy thread, no stored entry is lost: an
\* entry leaves the store only as a resolved entry of at least the cleanup
\* age.
C15_NoLostUpdate ==
    [][\A i \in DOMAIN tracked :
          EntriesOf(tracked', tracked[i].comment_id) = {}
            => AgedResolved(tracked[i], now, CLEANUP_MAX_AGE_DAYS)]_vars

\* C20: the first reconciliation pass runs at process startup, before the
\* first interval wait of accuracy_check_loop.
C20_RunBeforeFirstWait ==
    reconciler.sleeps >= 1 => reconciler.runs >= 1

RequestsInWindow(which, t) ==
    {k \in DOMAIN calls : calls[k].which = which /\ t - calls[k].at < RateWindow
                                                 /\ calls[k].at <= t}

\* C22: for each external scorer client the backend requests inside any
\* 60-second window number at most requests_per_minute; a check_toxicity
\* call made while the window is full returns (False, 0.0, {}) without
\* contacting the backend, and takes no slot: the client's request_times are
\* the requests that were sent.
C22_WindowLimit ==
    /\ \A which \in {"openai", "perspective"} :
          /\ \A k \in DOMAIN calls :
                 Cardinality(RequestsInWindow(which, calls[k].at))
                   <= pf[which].requests_per_minute
          /\ \A i \in DOMAIN pf[which].request_times :
                 \E k \in DOMAIN calls : /\ calls[k].which = which
                                          /\ calls[k].at = pf[which].request_times[i]
          /\ Len(pf[which].request_times) <= pf[which].requests_per_minute
    /\ fres.done =>
          LET sent == Cardinality(RequestsInWindow(fres.which, fres.at))
              before == IF fres.contacted THEN sent - 1 ELSE sent
          IN  before >= pf[fres.which].requests_per_minute
                => /\ ~fres.contacted
                   /\ ~fres.is_flagged
                   /\ fres.max_score = 0
                   /\ fres.scores = EmptyMap

\* a call on a full window that was skipped, and a later one that went through
\* after the window had moved on
C22_Witness ==
    /\ fres.done /\ fres.contacted
    /\ nreq > Len(calls)
    /\ Cardinality(RequestsInWindow(fres.which, fres.at))
         = pf[fres.which].requests_per_minute
    /\ \E k \in DOMAIN calls : calls[k].which = fres.which /\ fres.at - calls[k].at >= RateWindow

(***************************************************************************)
(* Scorers inside should_analyze (SpecFilter)                              *)
(***************************************************************************)
Scorers == {"detoxify", "openai", "perspective"}
ExternalScorers == {"openai", "perspective"}

ScorerEnabled(x) ==
    IF x = "openai" THEN cfg.openai_moderation_enabled /\ cfg.openai_moderation_key
    ELSE cfg.perspective_enabled /\ cfg.perspective_api_key

ScorerMode(x) ==
    IF x = "openai" THEN cfg.openai_moderation_mode ELSE cfg.perspective_mode

\* the same backends, but every external request answered
Answered(ml) ==
    [ml EXCEPT !.openai = IF @.raises THEN MLLow.openai ELSE @,
               !.perspective = IF @.raises THEN MLLow.perspective ELSE @]

\* C23: a scorer that raises during should_analyze leaves no score and no
\* trigger of its own in the result; should_analyze still returns a
\* decision, and the other scorers are consulted as their mode says: a
\* failed external request changes nothing in who is consulted, and after
\* a failed Detoxify prediction the externals in mode all or only are
\* consulted in the ML layer and every enabled external in the pattern path.
C23_ScorerErrorContained ==
    fres.done =>
        /\ fres.send \in BOOLEAN
        /\ fres.outcome \in {"MUST_ESCALATE", "BENIGN_SKIP", "SEND_TO_LLM", "SKIP"}
        /\ \A s \in Scorers :
              (s \in fres.called /\ fin.ml[s].raises) =>
                  /\ fres.scores[s] = EmptyMap
                  /\ s \notin fres.scores.sources
        /\ fres.called = should_analyze(NewPreFilter(cfg, fin.libs), cfg, fin.text,
                                        fin.is_top_level, now, Answered(fin.ml)).called
        /\ ("detoxify" \in fres.called /\ fin.ml.detoxify.raises) =>
              \A x \in ExternalScorers :
                  x \in fres.called <=>
                      /\ ScorerEnabled(x)
                      /\ \/ fres.outcome = "MUST_ESCALATE"
                         \/ ScorerMode(x) \in {"all", "only"}

C23_Witness ==
    /\ fres.done
    /\ fres.called = Scorers
    /\ \A s \in Scorers : fin.ml[s].raises
    /\ fres.outcome = "SKIP"

\* whether layer 3 of should_analyze finds a Detoxify trigger on the item
LocalTriggered ==
    MLLayer([NewPreFilter(cfg, fin.libs) EXCEPT !.has_openai = FALSE,
                                                !.has_perspective = FALSE],
            [cfg EXCEPT !.detoxify_can_escalate = TRUE],
            fin.text, fin.is_top_level, now, fin.ml).send

\* C24: an external scorer in confirm mode is called for an item only if
\* the local classifier triggered on the item or the local classifier is
\* unavailable.
C24_ConfirmOnlyAfterLocalTrigger ==
    fres.done =>
        \A x \in ExternalScorers :
            (ScorerMode(x) = "confirm" /\ x \in fres.called) =>
                LocalTriggered \/ ~pf.available

\* C25: when an enabled external scorer is in only mode, Detoxify is never
\* invoked, neither in the ML layer nor for the scores gathered on a
\* pattern match, whatever the other external scorer's mode.
C25_OnlyModeSkipsDetoxify ==
    (fres.done /\ \E x \in ExternalScorers :
                      ScorerEnabled(x) /\ ScorerMode(x) = "only") =>
        "detoxify" \notin fres.called

\* the text is directed: strongly, or weakly in a reply
Directed == fin.text.strong \/ (~fin.is_top_level /\ fin.text.weak)

\* a returned Detoxify label stands at or above the threshold set for it
LabelAtThreshold ==
    \E label \in DOMAIN fres.scores.detoxify :
        fres.scores.detoxify[label] >=
            (CASE label = "threat" -> cfg.threshold_threat
               [] label = "severe_toxicity" -> cfg.threshold_severe_toxicity
               [] label = "identity_attack" -> cfg.threshold_identity_attack
               [] label = "insult" ->
                    IF Directed THEN cfg.threshold_insult_directed
                    ELSE cfg.threshold_insult_not_directed
               [] label = "toxicity" ->
                    IF Directed THEN cfg.threshold_toxicity_directed
                    ELSE cfg.threshold_toxicity_not_directed
               [] label = "obscene" -> cfg.threshold_obscene
               [] OTHER -> 70)

\* a returned category of external scorer x stands at or above its threshold
ExternalAtThreshold(x) ==
    LET defaults == IF x = "openai" THEN OPENAI_DEFAULT_THRESHOLDS
                    ELSE PERSPECTIVE_DEFAULT_THRESHOLDS
    IN  \E c \in DOMAIN fres.scores[x] :
            fres.scores[x][c] >= (IF c \in DOMAIN defaults THEN defaults[c]
                                  ELSE pf[x].base_threshold)

IdentityAttackScore ==
    IF "identity_attack" \in DOMAIN fres.scores.detoxify
    THEN fres.scores.detoxify["identity_attack"] ELSE 0

\* a contextual term in a directed text or with an elevated identity attack
ContextualRule == fin.text.contextual /\ (Directed \/ IdentityAttackScore > 25)

InMLLayer == fres.done /\ fres.outcome \in {"SEND_TO_LLM", "SKIP"}

\* C26 as stated: without a pattern rule and a benign skip, send is TRUE
\* exactly when some label of some scorer is at or above its threshold or
\* the contextual rule holds.
C26_SendIffFired ==
    InMLLayer =>
        (fres.send <=> \/ LabelAtThreshold
                       \/ \E x \in ExternalScorers : ExternalAtThreshold(x)
                       \/ ContextualRule)

\* C26 amended: send is TRUE exactly when a consulted external scorer has a
\* category at or above its threshold, or detoxify_can_escalate is set and
\* either Detoxify returned scores and a label is at or above its threshold
\* or the contextual rule holds, or Detoxify is not loaded, no enabled
\* external scorer is in only mode, and the text has a contextual term and
\* is strongly directed.
C26_SendIffFiredAmended ==
    InMLLayer =>
        (fres.send <=>
            \/ \E x \in ExternalScorers : ExternalAtThreshold(x)
            \/ /\ cfg.detoxify_can_escalate
               /\ \/ /\ fres.scores.detoxify # EmptyMap
                     /\ LabelAtThreshold \/ ContextualRule
                  \/ /\ ~pf.available
                     /\ ~(cfg.openai_moderation_enabled
                          /\ cfg.openai_moderation_mode = "only")
                     /\ ~(cfg.perspective_enabled /\ cfg.perspective_mode = "only")
                     /\ fin.text.contextual /\ fin.text.strong)

C26_Witness ==
    /\ InMLLayer
    /\ ~fres.send
    /\ ~cfg.detoxify_can_escalate
    /\ LabelAtThreshold
    /\ fres.called = Scorers

(***************************************************************************)
(* Requests of analyze() (SpecArbiter)                                     *)
(***************************************************************************)
\* C27: any two consecutive backend requests are at least
\* 60/requests_per_minute seconds apart, retries and fallback attempts
\* included.
C27_MinInterval ==
    \A i \in 2..Len(calls) : calls[i].at - calls[i - 1].at >= an.min_request_interval

\* the step sends one backend request
Requested == Len(calls') = Len(calls) + 1

\* the request the step sends, with its outcome
Sent == calls'[Len(calls')]

\* a rate limit that is not a used-up daily quota and names a wait
WaitNamed(e) == e.kind = "rate_limit" /\ ~e.daily_exhausted /\ e.named_wait > 0

\* C28: a rate limit naming a wait of at most 30 s makes analyze() sleep
\* that long and retry the same model, a model being tried at most
\* max_retries times in one call (3 the primary, 2 a fallback); a rate
\* limit naming a longer wait puts the model on cooldown and passes to the
\* next model, the model not being tried again in the call.
C28_ShortWaitRetriesLongWaitCools ==
    [][Requested =>
         /\ \A m \in Range(cur.chain) :
               Cardinality({i \in DOMAIN calls' : calls'[i].model = m})
                   <= max_retries(PositionIn(cur.chain, m))
         /\ (WaitNamed(Sent) /\ Sent.named_wait <= 30) =>
               \/ /\ pc' = "attempt"
                  /\ cur'.model_idx = cur.model_idx
                  /\ now' = now + Sent.named_wait
               \/ /\ cur.attempt = max_retries(cur.model_idx) - 1
                  /\ cur'.model_idx = cur.model_idx + 1
         /\ (WaitNamed(Sent) /\ Sent.named_wait > 30) =>
               /\ CooldownUntil(an', Sent.model) > now'
               /\ cur'.model_idx = cur.model_idx + 1
               /\ pc' = "select"
         /\ \A i \in DOMAIN calls :
               (WaitNamed(calls[i]) /\ calls[i].named_wait > 30) =>
                   calls[i].model # Sent.model]_vars

\* C29: a rate limit showing the daily quota used up puts the model on a
\* cooldown of at least one hour whatever wait the error names, without a
\* sleep and without another request to the model in the call; the
\* cooldown of an hour still stands when analyze() returns.
C29_DailyExhaustedCoolsAnHour ==
    [][/\ (Requested /\ Sent.kind = "rate_limit" /\ Sent.daily_exhausted) =>
            /\ CooldownUntil(an', Sent.model) >= now' + HourSeconds
            /\ now' = now
            /\ cur'.model_idx = cur.model_idx + 1
            /\ pc' = "select"
       /\ Requested =>
            \A i \in DOMAIN calls :
                calls[i].daily_exhausted => calls[i].model # Sent.model
       /\ pc' = "finish" =>
            \A i \in DOMAIN calls' :
                calls'[i].daily_exhausted =>
                    CooldownUntil(an', calls'[i].model) >= calls'[i].at + HourSeconds]_vars

C29_Witness ==
    /\ pc = "finish"
    /\ cur.success
    /\ \E i \in DOMAIN calls :
          /\ calls[i].daily_exhausted
          /\ calls[i].named_wait = 30
          /\ i < Len(calls)

\* analyze() is about to return after a successful request
Succeeded == pc = "finish" /\ cur.success

\* C30 as stated: the model whose request succeeded has no active cooldown
\* when analyze() returns.
C30_SuccessClearsCooldown ==
    Succeeded => ~OnCooldown(an, cur.model, now)

\* C30 amended: when analyze() returns after a success of model m, the
\* cooldown entry m had is gone; m has no cooldown entry at all unless the
\* response showed at most 5 remaining requests, and then m has a new
\* cooldown of ten minutes from the request.
C30_SuccessClearsOldCooldown ==
    Succeeded =>
        LET e == calls[Len(calls)]
        IN  /\ e.model = cur.model
            /\ IF e.remaining_requests >= 0 /\ e.remaining_requests <= 5
               THEN CooldownUntil(an, cur.model) = e.at + 600
               ELSE cur.model \notin DOMAIN an.model_cooldowns

C30_Witness ==
    /\ Succeeded
    /\ calls[Len(calls)].cooldown_until > 0
    /\ cur.model \notin DOMAIN an.model_cooldowns

(***************************************************************************)
(* Cooldowns, errors and termination of analyze() (SpecArbiter)            *)
(***************************************************************************)
\* C31: no request goes to a model whose cooldown lies in the future when
\* the model is considered; the model is skipped, without a request, and
\* the next model of the chain is considered.
C31_NoRequestOnCooldown ==
    /\ [](/\ \A i \in DOMAIN calls : calls[i].cooldown_until <= calls[i].at
          /\ \A m \in cur.skipped : CallsTo(m) = {})
    /\ [][(/\ pc = "select"
           /\ cur.model_idx <= Len(cur.chain)
           /\ now < CooldownUntil(an, cur.chain[cur.model_idx])) =>
              /\ cur'.model_idx = cur.model_idx + 1
              /\ cur'.skipped = cur.skipped \cup {cur.chain[cur.model_idx]}
              /\ calls' = calls
              /\ pc' = "select"
              /\ an' = an]_vars

\* the primary was skipped on its cooldown and a fallback was asked
C31_Witness ==
    /\ pc = "finish"
    /\ an.primary_model \in cur.skipped
    /\ now < CooldownUntil(an, an.primary_model)
    /\ Len(calls) > 0

\* C32: an error that is no rate limit makes analyze() leave the model for
\* the next one at once: no sleep, no retry of the model in the call, no
\* cooldown set or changed.
C32_ErrorFallsThrough ==
    [][/\ (Requested /\ Sent.kind = "error") =>
            /\ cur'.model_idx = cur.model_idx + 1
            /\ pc' = "select"
            /\ now' = now
            /\ an'.model_cooldowns = an.model_cooldowns
       /\ Requested =>
            \A i \in DOMAIN calls :
                calls[i].kind = "error" => calls[i].model # Sent.model]_vars

\* a model failed with such an error and the next model answered
C32_Witness ==
    /\ pc = "finish"
    /\ cur.success
    /\ \E i \in DOMAIN calls : calls[i].kind = "error" /\ i < Len(calls)

\* C33: once the calls made today have reached llm_daily_limit, analyze()
\* does not send its first request to the primary model.
C33_FallbackAfterDailyLimit ==
    (Len(calls) > 0 /\ an.daily_calls - 1 >= an.daily_limit) =>
        calls[1].model # an.primary_model

(***************************************************************************)
(* Failures of the platform calls (Spec)                                   *)
(***************************************************************************)
\* C35: a pass whose report() raises creates no ReportedRecord, attempts no
\* removal, sends no report notification and leaves the main loop ready for
\* the next item; a pass whose remove() fails after report() returned has the
\* item recorded and notified as reported, not as auto-removed.
C35_PlatformFailures ==
    [][(pc = "finish" /\ pc' = "idle") =>
          /\ last'.report_raised =>
                /\ last'.report_called
                /\ tracked' = tracked
                /\ removes' = removes /\ ~last'.remove_called /\ ~last'.auto_removed
                /\ last'.notified = "none"
                /\ items' = items + 1 /\ cur' = CurIdle
          /\ last'.remove_raised =>
                /\ last'.report_called /\ ~last'.report_raised
                /\ removes'[last'.id] = removes[last'.id] + 1
                /\ ~last'.auto_removed
                /\ EntriesOf(tracked', last'.id) # {}
                /\ last'.notified = "report"]_vars

\* a first item's report raised and left no record; the next item was
\* reported, its removal failed, and it is recorded as reported
C35_Witness ==
    /\ \E id \in Ids : reports[id] = 1 /\ EntriesOf(tracked, id) = {} /\ id # last.id
    /\ last.report_called /\ ~last.report_raised
    /\ last.remove_raised /\ ~last.auto_removed /\ last.notified = "report"
    /\ EntriesOf(tracked, last.id) # {}

(***************************************************************************)
(* The pre-filter's counters (Spec)                                        *)
(***************************************************************************)
\* get_stats: sent and skipped
StatsSent(f) == f.must_escalate + f.ml_sent

StatsSkipped(f) == f.benign_skipped + f.pattern_skipped

\* C40: after any sequence of should_analyze calls total = must_escalate +
\* ml_sent + benign_skipped + pattern_skipped; every call adds one to total
\* and to exactly one of the four outcome counters, and it adds to
\* must_escalate or ml_sent exactly when its result is send=True.
C40_CountersAddUp ==
    /\ [](pf.total = StatsSent(pf) + StatsSkipped(pf))
    /\ [][pf' # pf =>
            /\ pf'.total = pf.total + 1
            /\ StatsSent(pf') + StatsSkipped(pf') = StatsSent(pf) + StatsSkipped(pf) + 1
            /\ pf'.must_escalate >= pf.must_escalate /\ pf'.ml_sent >= pf.ml_sent
            /\ pf'.benign_skipped >= pf.benign_skipped
            /\ pf'.pattern_skipped >= pf.pattern_skipped
            /\ (pc' = "select") <=> (StatsSent(pf') = StatsSent(pf) + 1)
            /\ (pc' = "idle") <=> (StatsSkipped(pf') = StatsSkipped(pf) + 1)]_vars

\* two calls: one skipped on a benign phrase, one sent by the scorers
C40_Witness ==
    pf.total = 2 /\ pf.benign_skipped = 1 /\ pf.ml_sent = 1

(***************************************************************************)
(* Termination of analyze() (SpecRetry)                                    *)
(***************************************************************************)
\* how far the model loop of analyze() has come: the model in hand, the
\* attempt on it, and whether the request of that attempt is about to be sent
LoopProgress(p, c) ==
    IF p = "select" THEN 8 * c.model_idx
    ELSE IF p = "attempt" THEN 8 * c.model_idx + 2 * c.attempt + 1
    ELSE 8 * (Len(c.chain) + 2)

C34_LoopEndsOnlyOnInterrupt ==
    /\ []((pc = "stopped") <=> ~main.running)
    /\ [](~main.running =>
            main.caught[Len(main.caught)].exc = "KeyboardInterrupt")
    /\ [][Len(main'.caught) > Len(main.caught) =>
            LET e == main'.caught[Len(main'.caught)]
            IN  IF e.exc = "KeyboardInterrupt" THEN ~main'.running
                ELSE /\ main'.running /\ pc' = "idle" /\ cur' = CurIdle
                     /\ e.where = "item" => (now' = now /\ items' = items + 1)
                     /\ e.where = "stream" => (now' >= now + 5 /\ items' = items)]_vars

\* an item raised and the stream failed, and an item that arrived after
\* both was analyzed
C34_Witness ==
    /\ main.running /\ pc = "idle" /\ last.analyzed
    /\ \E i, j \in DOMAIN main.caught :
          /\ main.caught[i].where = "item" /\ main.caught[j].where = "stream"
          /\ items > main.caught[i].items /\ items > main.caught[j].items

(***************************************************************************)
(* The outcomes file of refresh_modlog (SpecModlog)                        *)
(***************************************************************************)
\* the lines of a file that are well-formed outcome records
OutcomeLines(file) ==
    {i \in DOMAIN file :
        /\ file[i].json = "object" /\ file[i].target_fullname # <<>>
        /\ (IF file[i].status # "" THEN file[i].status ELSE file[i].outcome)
              \in {"approved", "removed"}
        /\ file[i].created_utc.kind = "number"
        /\ file[i].created_utc.value \div 10 # 0}

\* item fullname, status and whole-second timestamp of an outcome line
KeyOfLine(l) ==
    <<l.target_fullname, IF l.status # "" THEN l.status ELSE l.outcome,
      l.created_utc.value \div 10>>

\* C36: loading the outcomes file never aborts on a malformed line:
\* _read_seen_keys skips a line that is no well-formed outcome record and
\* returns the keys of all other lines.
C36_LoadNeverAborts ==
    modlog.runs > 0 =>
       /\ ~modlog.raised
       /\ \A i \in OutcomeLines(modlog.file) : KeyOfLine(modlog.file[i]) \in modlog.seen

\* C37: a run of refresh_modlog appends only records whose key is not on
\* the file yet, so the file never holds two lines of one key; a run that
\* follows a run which scanned the same moderation log to its end appends
\* nothing.
C37_OneLinePerKey ==
    /\ [](\A i, j \in OutcomeLines(modlog.file) :
             KeyOfLine(modlog.file[i]) = KeyOfLine(modlog.file[j]) => i = j)
    /\ [][modlog'.runs > modlog.runs =>
            /\ SubSeq(modlog'.file, 1, Len(modlog.file)) = modlog.file
            /\ Len(modlog'.file) = Len(modlog.file) + modlog'.written
            /\ (/\ modlog.runs > 0 /\ ~modlog.raised
                /\ \A k \in DOMAIN modlog.scans : modlog.scans[k].error = "")
                  => modlog'.file = modlog.file]_vars

\* two runs over the same log: the first wrote records, the second scanned
\* the log to its end and wrote none
C37_Witness ==
    /\ modlog.runs = 2 /\ ~modlog.raised /\ modlog.written = 0
    /\ modlog.scanned > 0 /\ Len(modlog.file) >= 3
    /\ \A k \in DOMAIN modlog.scans : modlog.scans[k].error = ""

\* C38: a scan that hits a server (5xx) error is tried again on the same
\* subreddit after a backoff before the next subreddit is scanned, and the
\* error does not reach the caller.
C38_ServerErrorRetried ==
    \A k \in DOMAIN modlog.scans :
       modlog.scans[k].error = "ServerError" =>
          /\ modlog.slept >= 25
          /\ k < Len(modlog.scans)
          /\ modlog.scans[k + 1].sub = modlog.scans[k].sub

====
